---------------------------- MODULE Spec2Model ----------------------------
(***************************************************************************)
(* A model of the MarketWatch activity-feed scrapers: the transaction      *)
(* parsers of competition_scraper.py and marketwatch_scraper.py, the       *)
(* deduplication step, the timestamp normalizer parse_date and the feed    *)
(* assembler create_activity_feed.                                         *)
(*                                                                         *)
(* Text is modelled as a sequence of one-character strings, so that        *)
(* strip, split, replace, zfill and strptime are computed character by     *)
(* character, as Python computes them.                                     *)
(***************************************************************************)
EXTENDS Integers, Sequences, FiniteSets, TLC

VARIABLES
    ts_src,       \* the two timestamps under normalization, as generated
    ts,           \* their text (the order_date strings handed to parse_date)
    norm,         \* parse_date of each, <<>> before the normalizer has run
    competitors,  \* the Competitor list: scrape_all_competitors' list, create_activity_feed's argument
    feed,         \* create_activity_feed's return value
    feed_pc,      \* "input" before create_activity_feed, "done" after; else "idle"
    doc,          \* the portfolio page: a sequence of tables
    candidates,   \* parse_transactions' local list before deduplication
    transactions, \* the list the parser returned
    parse_pc,     \* "input", then the parser that ran; "idle" where none runs
    sheet,        \* one table or one CSV export: its kind and its rows, the header row first
    parsed,       \* the list the table or CSV parser returned for the sheet
    raised,       \* the exception that left that parser, "none" when it returned
    rows_pc,      \* "input", then the parser that ran on the sheet; "idle" where none runs
    public_ids,   \* scrape_all_competitors' argument
    site,         \* what the server answers for each public id
    fetched,      \* the requests sent so far, in order
    scrape_i,     \* the position in public_ids the loop stands at; 0 where it does not run
    account,      \* what the server answers for the one portfolio of MarketWatchScraper
    portfolio_data, \* get_portfolio_performance's return value
    requested,    \* the requests get_portfolio_performance has sent, in order
    portfolio_pc, \* "input" before get_portfolio_performance, "done" after; else "idle"
    leaderboard,  \* what scrape_leaderboard meets: whether the request succeeds, and the entries
    data_file,    \* competition_data.json
    frontend_file, \* frontend/public/competition_data.json
    update_pc,    \* "input" before update_frontend_data, "done" after; else "idle"
    auto_pc,      \* where auto_scraper's main stands
    auto_steps,   \* the steps the current run of run_scrapers has executed, with their outcomes
    auto_result,  \* what the last finished run_scrapers returned, "none" before the first
    auto_runs     \* the number of runs started, counted up to MaxRuns

rowVars == <<sheet, parsed, raised, rows_pc>>

scrapeVars == <<public_ids, site, fetched, scrape_i>>

portfolioVars == <<account, portfolio_data, requested, portfolio_pc>>

updateVars == <<leaderboard, data_file, frontend_file, update_pc>>

autoVars == <<auto_pc, auto_steps, auto_result, auto_runs>>

vars == <<ts_src, ts, norm, competitors, feed, feed_pc,
          doc, candidates, transactions, parse_pc, rowVars, scrapeVars,
          portfolioVars, updateVars, autoVars>>

\* no table or CSV parser is under observation
RowsIdle == sheet = <<>> /\ parsed = <<>> /\ raised = "none" /\ rows_pc = "idle"

\* no scrape_all_competitors run is under observation
ScrapeIdle == public_ids = <<>> /\ site = <<>> /\ fetched = <<>> /\ scrape_i = 0

\* no get_portfolio_performance call is under observation
PortfolioIdle ==
    account = <<>> /\ portfolio_data = <<>> /\ requested = <<>> /\ portfolio_pc = "idle"

\* no update_frontend_data call is under observation
UpdateIdle ==
    leaderboard = <<>> /\ data_file = <<>> /\ frontend_file = <<>> /\ update_pc = "idle"

\* auto_scraper does not run
AutoIdle ==
    auto_pc = "idle" /\ auto_steps = <<>> /\ auto_result = "none" /\ auto_runs = 0

\* no timestamps are under normalization
DateIdle == ts_src = <<>> /\ ts = <<>> /\ norm = <<>>

\* no create_activity_feed call is under observation
FeedIdle == competitors = <<>> /\ feed = <<>> /\ feed_pc = "idle"

\* no page parser is under observation
ParseIdle == doc = <<>> /\ candidates = <<>> /\ transactions = <<>> /\ parse_pc = "idle"

---------------------------------------------------------------------------
(* Text helpers: Python's str methods on sequences of characters.          *)

Digits == <<"0", "1", "2", "3", "4", "5", "6", "7", "8", "9">>

IsDigit(c) == \E d \in 1..10 : Digits[d] = c

DigitVal(c) == (CHOOSE d \in 1..10 : Digits[d] = c) - 1

\* str.strip() and the regular expression class \s
Whitespace == {" ", "\t", "\n", "\r"}

RECURSIVE LStrip(_)
LStrip(s) ==
    IF s # <<>> /\ Head(s) \in Whitespace THEN LStrip(Tail(s)) ELSE s

RECURSIVE RStrip(_)
RStrip(s) ==
    IF s # <<>> /\ s[Len(s)] \in Whitespace
    THEN RStrip(SubSeq(s, 1, Len(s) - 1))
    ELSE s

Strip(s) == RStrip(LStrip(s))

\* s[i..] starts with sub
StartsAt(s, i, sub) ==
    /\ i + Len(sub) - 1 <= Len(s)
    /\ \A k \in 1..Len(sub) : s[i + k - 1] = sub[k]

\* sub in s
Contains(s, sub) == \E i \in 1..(Len(s) + 1) : StartsAt(s, i, sub)

\* s.replace(old, new), old non-empty: left to right, non-overlapping
RECURSIVE Replace(_, _, _)
Replace(s, old, new) ==
    IF s = <<>> THEN <<>>
    ELSE IF StartsAt(s, 1, old)
         THEN new \o Replace(SubSeq(s, Len(old) + 1, Len(s)), old, new)
         ELSE <<Head(s)>> \o Replace(Tail(s), old, new)

\* s.split(sep) for a one-character sep: empty pieces are kept
RECURSIVE SplitOn(_, _)
SplitOn(s, sep) ==
    IF \A i \in 1..Len(s) : s[i] # sep THEN <<s>>
    ELSE LET i == CHOOSE k \in 1..Len(s) :
                      s[k] = sep /\ \A j \in 1..(k - 1) : s[j] # sep
         IN  <<SubSeq(s, 1, i - 1)>> \o SplitOn(SubSeq(s, i + 1, Len(s)), sep)

\* s.zfill(2): zeros go after a leading sign
Zfill2(s) ==
    IF Len(s) >= 2 THEN s
    ELSE IF Len(s) = 1 /\ s[1] \in {"+", "-"} THEN <<s[1], "0">>
    ELSE IF Len(s) = 1 THEN <<"0", s[1]>>
    ELSE <<"0", "0">>

\* the number of digits at s[i], s[i+1], ...
RECURSIVE DigitRun(_, _)
DigitRun(s, i) ==
    IF i <= Len(s) /\ IsDigit(s[i]) THEN 1 + DigitRun(s, i + 1) ELSE 0

\* the number of whitespace characters at s[i], s[i+1], ...
RECURSIVE SpaceRun(_, _)
SpaceRun(s, i) ==
    IF i <= Len(s) /\ s[i] \in Whitespace THEN 1 + SpaceRun(s, i + 1) ELSE 0

\* int() of the n digits at s[i]
RECURSIVE IntAt(_, _, _)
IntAt(s, i, n) ==
    IF n = 0 THEN 0
    ELSE IntAt(s, i, n - 1) * 10 + DigitVal(s[i + n - 1])

---------------------------------------------------------------------------
(* datetime values: <<year, month, day, hour, minute>>.                    *)

DatetimeMin == <<1, 1, 1, 0, 0>>

IsLeap(y) == (y % 4 = 0 /\ y % 100 # 0) \/ y % 400 = 0

DaysInMonth(y, m) ==
    IF m = 2 THEN (IF IsLeap(y) THEN 29 ELSE 28)
    ELSE IF m \in {4, 6, 9, 11} THEN 30 ELSE 31

\* datetime.__lt__
DtLess(a, b) ==
    \E k \in 1..5 : a[k] < b[k] /\ \A j \in 1..(k - 1) : a[j] = b[j]

\* A failed step of parse_date's try block (an exception was raised).
Raised == [ok |-> FALSE, val |-> DatetimeMin]

\* datetime.strptime(s, "%Y-%m-%d %I:%M %p"): the format's regular
\* expression is  \d\d\d\d - (1[0-2]|0[1-9]|[1-9]) - (3[01]|[12]\d|0[1-9]|[1-9])
\* \s+ (1[0-2]|0[1-9]|[1-9]) : ([0-5]\d|\d) \s+ (am|pm), case-insensitive,
\* and must consume the whole string.  Every numeric field is followed by a
\* literal that is not a digit, so a field is the whole run of digits there.
Strptime(s) ==
    LET yOk  == DigitRun(s, 1) >= 4 /\ StartsAt(s, 5, <<"-">>)
        mLen == DigitRun(s, 6)
        mVal == IntAt(s, 6, mLen)
        mOk  == \/ mLen = 1 /\ mVal \in 1..9
                \/ mLen = 2 /\ mVal \in 1..12
        dPos == 6 + mLen + 1
        dLen == DigitRun(s, dPos)
        dVal == IntAt(s, dPos, dLen)
        dOk  == \/ dLen = 1 /\ dVal \in 1..9
                \/ dLen = 2 /\ dVal \in 1..31
        w1   == SpaceRun(s, dPos + dLen)
        iPos == dPos + dLen + w1
        iLen == DigitRun(s, iPos)
        iVal == IntAt(s, iPos, iLen)
        iOk  == \/ iLen = 1 /\ iVal \in 1..9
                \/ iLen = 2 /\ iVal \in 1..12
        nPos == iPos + iLen + 1
        nLen == DigitRun(s, nPos)
        nVal == IntAt(s, nPos, nLen)
        nOk  == \/ nLen = 1
                \/ nLen = 2 /\ nVal \in 0..59
        w2   == SpaceRun(s, nPos + nLen)
        pPos == nPos + nLen + w2
        isAm == pPos + 1 <= Len(s) /\ s[pPos] \in {"A", "a"} /\ s[pPos + 1] \in {"M", "m"}
        isPm == pPos + 1 <= Len(s) /\ s[pPos] \in {"P", "p"} /\ s[pPos + 1] \in {"M", "m"}
        year == IntAt(s, 1, 4)
        hour == IF isAm THEN (IF iVal = 12 THEN 0 ELSE iVal)
                ELSE (IF iVal = 12 THEN 12 ELSE iVal + 12)
    IN  IF /\ yOk
           /\ mOk
           /\ StartsAt(s, 6 + mLen, <<"-">>)
           /\ dOk
           /\ w1 >= 1
           /\ iOk
           /\ StartsAt(s, iPos + iLen, <<":">>)
           /\ nOk
           /\ w2 >= 1
           /\ (isAm \/ isPm)
           /\ pPos + 1 = Len(s)
           /\ year >= 1
           /\ dVal <= DaysInMonth(year, mVal)
        THEN [ok |-> TRUE, val |-> <<year, mVal, dVal, hour, nVal>>]
        ELSE Raised

\* The body of parse_date's try block: [ok |-> FALSE] where it raises.
ParseDateTry(date_str) ==
    IF date_str = <<>> \/ Strip(date_str) = <<>>
    THEN [ok |-> TRUE, val |-> DatetimeMin]
    ELSE LET cleaned == Strip(Replace(date_str, <<" ", "E", "T">>, <<>>))
             parts   == SplitOn(cleaned, " ")
         IN  IF Len(parts) # 2 THEN Raised
             ELSE LET mdy == SplitOn(parts[1], "/")
                  IN  IF Len(mdy) # 3 THEN Raised
                      ELSE LET year      == <<"2", "0">> \o mdy[3]
                               time_part == Replace(Replace(parts[2], <<"a">>, <<" ", "A", "M">>),
                                                    <<"p">>, <<" ", "P", "M">>)
                               full_date_str ==
                                   year \o <<"-">> \o Zfill2(mdy[1]) \o <<"-">>
                                        \o Zfill2(mdy[2]) \o <<" ">> \o time_part
                           IN  Strptime(full_date_str)

\* parse_date without its except clause: the exception escapes
parse_date_uncaught(date_str) ==
    LET r == ParseDateTry(date_str)
    IN  IF r.ok THEN r.val ELSE <<"raised">>

\* parse_date keeping 12 as the hour of 12:MMa and adding 12 to 12:MMp
parse_date_no12(date_str) ==
    LET r == ParseDateTry(date_str)
        h == r.val[4]
    IN  IF ~r.ok THEN DatetimeMin
        ELSE IF h = 0 /\ r.val # DatetimeMin THEN [r.val EXCEPT ![4] = 12]
        ELSE r.val

\* parse_date whose except clause returns the latest datetime
parse_date_max_on_failure(date_str) ==
    LET r == ParseDateTry(date_str)
    IN  IF r.ok THEN r.val ELSE <<9999, 12, 31, 23, 59>>

\* parse_date: except Exception: return datetime.min
parse_date(date_str) ==
    LET r == ParseDateTry(date_str)
    IN  IF r.ok THEN r.val ELSE DatetimeMin

---------------------------------------------------------------------------
(* The timestamps the normalizer is applied to.                            *)

TwoDigits(n) == <<Digits[(n \div 10) + 1], Digits[(n % 10) + 1]>>

Num(n) == IF n < 10 THEN <<Digits[n + 1]>> ELSE TwoDigits(n)

\* The site's timestamp text "<M>/<D>/<YY> <H>:<MM><a|p> ET"
FormatTimestamp(c) ==
    Num(c.M) \o <<"/">> \o Num(c.D) \o <<"/">> \o TwoDigits(c.YY) \o <<" ">>
        \o Num(c.H) \o <<":">> \o TwoDigits(c.MM) \o <<c.ap>> \o <<" ", "E", "T">>

WellFormedStamps ==
    [kind : {"wellformed"}, M : {2, 10, 12}, D : {9, 10}, YY : {9, 25},
     H : {1, 11, 12}, MM : {0, 45}, ap : {"a", "p"}]

NoStamp == [kind |-> "garbage", M |-> 0, D |-> 0, YY |-> 0, H |-> 0, MM |-> 0, ap |-> "a"]

SpecExampleStamp == [kind |-> "wellformed", M |-> 7, D |-> 9, YY |-> 25, H |-> 10, MM |-> 45, ap |-> "a"]

\* Text that is not a timestamp: empty, blank, too few or too many parts,
\* non-numeric fields, fields out of range, a date not in the calendar.
GarbageStamps ==
    { <<>>,
      <<" ">>,
      <<" ", "\t", " ">>,
      <<"n", "/", "a">>,
      <<"N", "/", "A">>,
      <<"7", "/", "9", "/", "2", "5">>,
      <<"1", "0", ":", "4", "5", "a", " ", "E", "T">>,
      <<"7", "/", "9", " ", "1", "0", ":", "4", "5", "a", " ", "E", "T">>,
      <<"7", "/", "9", "/", "2", "5", "/", "1", " ", "1", "0", ":", "4", "5", "a", " ", "E", "T">>,
      <<"7", "/", "9", "/", "2", "5", " ", " ", "1", "0", ":", "4", "5", "a", " ", "E", "T">>,
      <<"7", "/", "9", "/", "2", "5", " ", "1", "0", ":", "4", "5", "a", " ", "x">>,
      <<"7", "/", "9", "/", "2", "5", " ", "1", "0", ":", "4", "5", " ", "E", "T">>,
      <<"x", "/", "y", "/", "z", "z", " ", "1", "0", ":", "4", "5", "a", " ", "E", "T">>,
      <<"7", "/", "9", "/", "2", "5", " ", "h", "h", ":", "m", "m", "a", " ", "E", "T">>,
      <<"7", "/", "9", "/", "5", " ", "1", "0", ":", "4", "5", "a", " ", "E", "T">>,
      <<"1", "3", "/", "9", "/", "2", "5", " ", "1", "0", ":", "4", "5", "a", " ", "E", "T">>,
      <<"2", "/", "3", "0", "/", "2", "5", " ", "1", "0", ":", "4", "5", "a", " ", "E", "T">>,
      <<"7", "/", "9", "/", "2", "5", " ", "1", "3", ":", "4", "5", "p", " ", "E", "T">>,
      <<"7", "/", "9", "/", "2", "5", " ", "0", ":", "4", "5", "a", " ", "E", "T">>,
      <<"7", "/", "9", "/", "2", "5", " ", "1", "0", ":", "6", "0", "a", " ", "E", "T">>,
      <<"7", "/", "9", "/", "2", "5", " ", "1", "0", "4", "5", "a", " ", "E", "T">>,
      <<"-", "/", "9", "/", "2", "5", " ", "1", "0", ":", "4", "5", "a", " ", "E", "T">>,
      <<"g", "a", "r", "b", "a", "g", "e">>,
      <<"g", "a", "r", "b", "a", "g", "e", " ", "t", "e", "x", "t">> }

InitDate ==
    /\ \/ /\ ts_src \in [1..2 -> WellFormedStamps]
          /\ ts = [i \in 1..2 |-> FormatTimestamp(ts_src[i])]
       \/ /\ ts_src = <<NoStamp, SpecExampleStamp>>
          /\ \E g \in GarbageStamps : ts = <<g, FormatTimestamp(SpecExampleStamp)>>
    /\ norm = <<>>
    /\ competitors = <<>>
    /\ feed = <<>>
    /\ feed_pc = "idle"
    /\ doc = <<>>
    /\ candidates = <<>>
    /\ transactions = <<>>
    /\ parse_pc = "idle"
    /\ RowsIdle
    /\ ScrapeIdle
    /\ PortfolioIdle
    /\ UpdateIdle
    /\ AutoIdle

\* The sort key of create_activity_feed, applied to each timestamp
NormalizeTimestamps ==
    /\ norm = <<>>
    /\ ts # <<>>
    /\ norm' = [i \in 1..Len(ts) |-> parse_date(ts[i])]
    /\ UNCHANGED <<ts_src, ts, competitors, feed, feed_pc,
                   doc, candidates, transactions, parse_pc, rowVars, scrapeVars,
                   portfolioVars, updateVars, autoVars>>

NextDate == NormalizeTimestamps

SpecDate == InitDate /\ [][NextDate]_vars

---------------------------------------------------------------------------
(* create_activity_feed.  A Transaction is a record of the dataclass's      *)
(* fields, a Competitor a record of name, rank, portfolio_value and         *)
(* transactions; an activity is the dictionary the feed holds.              *)

\* if transaction.status == "Canceled": continue
SkipsTransactionTypo(transaction) == transaction.status = "Cancelled"

SkipsTransaction(transaction) == transaction.status = "Canceled"

\* the activity with the execution time in place of the order time
ActivityByTransactionDate(competitor, transaction) ==
    [timestamp       |-> transaction.transaction_date,
     player_name     |-> competitor.name,
     player_rank     |-> competitor.rank,
     action          |-> transaction.action,
     symbol          |-> transaction.symbol,
     amount          |-> transaction.amount,
     price           |-> transaction.price,
     portfolio_value |-> competitor.portfolio_value]

Activity(competitor, transaction) ==
    [timestamp       |-> transaction.order_date,
     player_name     |-> competitor.name,
     player_rank     |-> competitor.rank,
     action          |-> transaction.action,
     symbol          |-> transaction.symbol,
     amount          |-> transaction.amount,
     price           |-> transaction.price,
     portfolio_value |-> competitor.portfolio_value]

\* the inner loop: one competitor's transactions, in order
RECURSIVE CompetitorActivities(_, _)
CompetitorActivities(competitor, txs) ==
    IF txs = <<>> THEN <<>>
    ELSE IF SkipsTransaction(Head(txs))
         THEN CompetitorActivities(competitor, Tail(txs))
         ELSE <<Activity(competitor, Head(txs))>>
                  \o CompetitorActivities(competitor, Tail(txs))

\* the outer loop: the competitors, in order
RECURSIVE Activities(_)
Activities(cs) ==
    IF cs = <<>> THEN <<>>
    ELSE CompetitorActivities(Head(cs), Head(cs).transactions) \o Activities(Tail(cs))

RECURSIVE Reverse(_)
Reverse(s) == IF s = <<>> THEN <<>> ELSE Reverse(Tail(s)) \o <<Head(s)>>

SortKey(x) == parse_date(x.timestamp)

\* x goes after every element whose key is not greater than its own
RECURSIVE InsertByKey(_, _)
InsertByKey(sorted, x) ==
    IF sorted = <<>> THEN <<x>>
    ELSE IF DtLess(SortKey(x), SortKey(Head(sorted)))
         THEN <<x>> \o sorted
         ELSE <<Head(sorted)>> \o InsertByKey(Tail(sorted), x)

\* a stable ascending sort by key (the order list.sort produces)
RECURSIVE StableSort(_)
StableSort(s) ==
    IF s = <<>> THEN <<>>
    ELSE InsertByKey(StableSort(SubSeq(s, 1, Len(s) - 1)), s[Len(s)])

\* activities.sort(key=...) without reverse=True
SortOldestFirst(activities) == StableSort(activities)

\* sorted ascending and then reversed: equal keys come out in reverse
SortThenReverse(activities) == Reverse(StableSort(activities))

\* activities.sort(key=..., reverse=True): list.sort reverses the list,
\* sorts it ascending and stable, and reverses the result
SortNewestFirst(activities) == Reverse(StableSort(Reverse(activities)))

create_activity_feed(cs) == SortNewestFirst(Activities(cs))

---------------------------------------------------------------------------
(* The competitors the feed is assembled from.                             *)

AAPL == <<"A", "A", "P", "L">>
MSFT == <<"M", "S", "F", "T">>
TSLA == <<"T", "S", "L", "A">>
NVDA == <<"N", "V", "D", "A">>
GOOG == <<"G", "O", "O", "G">>
Buy == <<"B", "u", "y">>
Sell == <<"S", "e", "l", "l">>
Short == <<"S", "h", "o", "r", "t">>
Cover == <<"C", "o", "v", "e", "r">>
Price150 == <<"$", "1", "5", "0", ".", "0", "0">>
Price150_01 == <<"$", "1", "5", "0", ".", "0", "1">>
Price300 == <<"$", "3", "0", "0", ".", "0", "0">>
PriceNA == <<"N", "/", "A">>

Stamp(m, d, h, mm, ap) ==
    FormatTimestamp([kind |-> "wellformed", M |-> m, D |-> d, YY |-> 25,
                     H |-> h, MM |-> mm, ap |-> ap])

\* The order dates of the specification's sort example
Jul9_1045a == Stamp(7, 9, 10, 45, "a")
Jul8_0900a == Stamp(7, 8, 9, 0, "a")
Jul9_0200p == Stamp(7, 9, 2, 0, "p")
Jul9_1046a == Stamp(7, 9, 10, 46, "a")

Tx(symbol, order_date, transaction_date, action, amount, price, status) ==
    [symbol |-> symbol, order_date |-> order_date,
     transaction_date |-> transaction_date, action |-> action,
     amount |-> amount, price |-> price, status |-> status]

FeedTransactions ==
    { Tx(AAPL, Jul9_1045a, Jul9_1046a, Buy, 100, Price150, "Completed"),
      Tx(MSFT, Jul8_0900a, Jul8_0900a, Sell, 1000, Price300, "Completed"),
      Tx(TSLA, Jul9_0200p, Jul9_0200p, Short, 5, Price300, "Completed"),
      Tx(NVDA, Jul9_1045a, Jul9_1045a, Cover, 100, Price150_01, "Completed"),
      Tx(GOOG, Jul9_0200p, <<>>, Buy, 7, PriceNA, "Canceled"),
      Tx(GOOG, <<>>, Jul9_1046a, Buy, 0, Price150, "Completed"),
      Tx(MSFT, <<"P", "e", "n", "d", "i", "n", "g">>, <<>>, Buy, 10, Price300, "Completed") }

\* the number of transactions of all competitors together
MaxFeedTx == 3

RECURSIVE SeqsUpTo(_, _)
SeqsUpTo(S, n) ==
    IF n = 0 THEN {<<>>}
    ELSE LET shorter == SeqsUpTo(S, n - 1)
         IN  shorter \cup {Append(q, x) : q \in shorter, x \in S}

Alice(txs) == [name |-> "Alice", rank |-> 1, portfolio_value |-> 105250,
               transactions |-> txs]

Bob(txs) == [name |-> "Bob", rank |-> 2, portfolio_value |-> 98000,
             transactions |-> txs]

InitFeed ==
    /\ \E all \in SeqsUpTo(FeedTransactions, MaxFeedTx) :
           \/ competitors = <<>>
           \/ competitors = <<Alice(all)>>
           \/ \E cut \in 0..Len(all) :
                  competitors = <<Alice(SubSeq(all, 1, cut)),
                                  Bob(SubSeq(all, cut + 1, Len(all)))>>
    /\ feed = <<>>
    /\ feed_pc = "input"
    /\ ts_src = <<>>
    /\ ts = <<>>
    /\ norm = <<>>
    /\ doc = <<>>
    /\ candidates = <<>>
    /\ transactions = <<>>
    /\ parse_pc = "idle"
    /\ RowsIdle
    /\ ScrapeIdle
    /\ PortfolioIdle
    /\ UpdateIdle
    /\ AutoIdle

IsLiveTransaction(transaction) == ~SkipsTransaction(transaction)

\* a create_activity_feed that takes the canceled transactions out of the
\* competitors' own lists before it builds the activities
CreateActivityFeedPruningInput ==
    /\ feed_pc = "input"
    /\ feed' = create_activity_feed(competitors)
    /\ competitors' = [i \in DOMAIN competitors |->
                          [competitors[i] EXCEPT !.transactions =
                               SelectSeq(competitors[i].transactions, IsLiveTransaction)]]
    /\ feed_pc' = "done"
    /\ UNCHANGED <<ts_src, ts, norm,
                   doc, candidates, transactions, parse_pc, rowVars, scrapeVars,
                   portfolioVars, updateVars, autoVars>>

CreateActivityFeed ==
    /\ feed_pc = "input"
    /\ feed' = create_activity_feed(competitors)
    /\ feed_pc' = "done"
    /\ UNCHANGED <<ts_src, ts, norm, competitors,
                   doc, candidates, transactions, parse_pc, rowVars, scrapeVars,
                   portfolioVars, updateVars, autoVars>>

NextFeed == CreateActivityFeed

SpecFeed == InitFeed /\ [][NextFeed]_vars

---------------------------------------------------------------------------
(* The transaction parsers.  A portfolio page is the sequence of its        *)
(* tables in document order; a table has its class tokens, whether it lies  *)
(* inside a vse-module element with view="transactions", and its rows       *)
(* (the first is the header row); a row is the sequence of its cells' text. *)

\* "sup2" stands for the one character U+00B2, for which str.isdigit() is
\* true and int() raises ValueError
DigitLike == {"sup2"}

\* str.isdigit()
IsDigitStr(s) ==
    s # <<>> /\ \A i \in 1..Len(s) : IsDigit(s[i]) \/ s[i] \in DigitLike

\* s.split(): the pieces between runs of whitespace
RECURSIVE SplitWords(_)
SplitWords(s) ==
    LET t == LStrip(s)
    IN  IF t = <<>> THEN <<>>
        ELSE LET n == CHOOSE k \in 1..Len(t) :
                          /\ \A j \in 1..k : t[j] \notin Whitespace
                          /\ k = Len(t) \/ t[k + 1] \in Whitespace
             IN  <<SubSeq(t, 1, n)>> \o SplitWords(SubSeq(t, n + 1, Len(t)))

\* cell.get_text(strip=True) of a cell holding one text node
GetText(cell) == Strip(cell)

CanceledWord == <<"C", "a", "n", "c", "e", "l", "e", "d">>

\* int(amount_text) raises ValueError on the row's amount
RowDropped(cells) ==
    LET amount_text == Replace(GetText(cells[5]), <<",">>, <<>>)
    IN  IsDigitStr(amount_text)
            /\ \E i \in 1..Len(amount_text) : amount_text[i] \in DigitLike

\* a row parser that keeps the action cell's text as the action of a
\* canceled order too
ParseRowActionVerbatim(cells) ==
    IF Len(cells) < 6 \/ RowDropped(cells) THEN <<>>
    ELSE LET amount_text == Replace(GetText(cells[5]), <<",">>, <<>>)
         IN  <<[symbol |-> GetText(cells[1]), order_date |-> GetText(cells[2]),
                transaction_date |-> GetText(cells[3]), action |-> GetText(cells[4]),
                amount |-> IF IsDigitStr(amount_text)
                           THEN IntAt(amount_text, 1, Len(amount_text))
                           ELSE 0,
                price |-> GetText(cells[6]),
                status |-> IF Contains(GetText(cells[4]), CanceledWord)
                           THEN "Canceled" ELSE "Completed"]>>

\* The body of the row loop of _parse_transaction_table (the same in both
\* scrapers): no record for a row of fewer than 6 cells, nor for a row
\* whose amount raises ValueError in int().
ParseRow(cells) ==
    IF Len(cells) < 6 THEN <<>>
    ELSE LET symbol           == GetText(cells[1])
             order_date       == GetText(cells[2])
             transaction_date == GetText(cells[3])
             action_text      == GetText(cells[4])
             canceled         == Contains(action_text, CanceledWord)
             status           == IF canceled THEN "Canceled" ELSE "Completed"
             words            == SplitWords(action_text)
             action           == IF canceled /\ words # <<>> THEN words[1]
                                 ELSE action_text
             amount_text      == Replace(GetText(cells[5]), <<",">>, <<>>)
             price            == GetText(cells[6])
         IN  IF IsDigitStr(amount_text)
                /\ \E i \in 1..Len(amount_text) : amount_text[i] \in DigitLike
             THEN <<>>
             ELSE <<[symbol |-> symbol, order_date |-> order_date,
                     transaction_date |-> transaction_date, action |-> action,
                     amount |-> IF IsDigitStr(amount_text)
                                THEN IntAt(amount_text, 1, Len(amount_text))
                                ELSE 0,
                     price |-> price, status |-> status]>>

\* a row loop that a row of fewer than 6 cells ends
RECURSIVE ParseRowsStopAtShort(_)
ParseRowsStopAtShort(rows) ==
    IF rows = <<>> \/ Len(Head(rows)) < 6 THEN <<>>
    ELSE ParseRow(Head(rows)) \o ParseRowsStopAtShort(Tail(rows))

\* for row in rows[1:]
RECURSIVE ParseRows(_)
ParseRows(rows) ==
    IF rows = <<>> THEN <<>> ELSE ParseRow(Head(rows)) \o ParseRows(Tail(rows))

\* _parse_transaction_table
ParseTransactionTable(table) ==
    IF table.rows = <<>> THEN <<>> ELSE ParseRows(Tail(table.rows))

HasClass(table, token) == \E i \in DOMAIN table.classes : table.classes[i] = token

TablePrimary == <<"t", "a", "b", "l", "e", "-", "-", "p", "r", "i", "m", "a", "r", "y">>
Ranking == <<"r", "a", "n", "k", "i", "n", "g">>
TableWord == <<"t", "a", "b", "l", "e">>
SymbolWord == <<"S", "y", "m", "b", "o", "l">>
OrderWord == <<"O", "r", "d", "e", "r">>

\* for table in tables: transactions.extend(_parse_transaction_table(table))
RECURSIVE ParseTables(_)
ParseTables(tables) ==
    IF tables = <<>> THEN <<>>
    ELSE ParseTransactionTable(Head(tables)) \o ParseTables(Tail(tables))


\* strategy 1 of CompetitionScraper.parse_transactions: the table--primary
\* tables inside the transactions module
InModulePrimary(table) == table.in_module /\ HasClass(table, TablePrimary)

\* a header check that is content with either word
LooksLikeTransactionsEitherWord(table) ==
    /\ HasClass(table, TablePrimary) \/ HasClass(table, Ranking)
    /\ table.rows # <<>>
    /\ LET headers == [i \in DOMAIN table.rows[1] |-> GetText(table.rows[1][i])]
       IN  \/ \E i \in DOMAIN headers : Contains(headers[i], SymbolWord)
           \/ \E i \in DOMAIN headers : Contains(headers[i], OrderWord)

\* strategy 2: the table--primary or ranking tables whose header row names
\* both Symbol and Order
LooksLikeTransactions(table) ==
    /\ HasClass(table, TablePrimary) \/ HasClass(table, Ranking)
    /\ table.rows # <<>>
    /\ LET headers == [i \in DOMAIN table.rows[1] |-> GetText(table.rows[1][i])]
       IN  /\ \E i \in DOMAIN headers : Contains(headers[i], SymbolWord)
           /\ \E i \in DOMAIN headers : Contains(headers[i], OrderWord)

\* a locator whose header strategy runs only when the module strategy
\* found nothing
CandidatesFirstSuccess(d) ==
    IF ParseTables(SelectSeq(d, InModulePrimary)) # <<>>
    THEN ParseTables(SelectSeq(d, InModulePrimary))
    ELSE ParseTables(SelectSeq(d, LooksLikeTransactions))

\* the list parse_transactions holds before it removes duplicates
CompetitionCandidates(d) ==
    ParseTables(SelectSeq(d, InModulePrimary))
        \o ParseTables(SelectSeq(d, LooksLikeTransactions))

\* a key that tells records apart by price too
KeyWithPrice(t) == <<t.symbol, t.order_date, t.action, t.amount, t.price>>

\* key = (t.symbol, t.order_date, t.action, t.amount)
Key(t) == <<t.symbol, t.order_date, t.action, t.amount>>

RECURSIVE DedupLoop(_, _, _)
DedupLoop(rest, seen, unique_transactions) ==
    IF rest = <<>> THEN unique_transactions
    ELSE LET t == Head(rest)
         IN  IF Key(t) \notin seen
             THEN DedupLoop(Tail(rest), seen \cup {Key(t)}, Append(unique_transactions, t))
             ELSE DedupLoop(Tail(rest), seen, unique_transactions)

\* a deduplication that deletes from the list it is iterating over: the
\* element after a deleted one is skipped
RECURSIVE RemoveLoop(_, _, _)
RemoveLoop(list, i, seen) ==
    IF i > Len(list) THEN list
    ELSE IF Key(list[i]) \in seen
         THEN RemoveLoop(SubSeq(list, 1, i - 1) \o SubSeq(list, i + 1, Len(list)),
                         i + 1, seen)
         ELSE RemoveLoop(list, i + 1, seen \cup {Key(list[i])})

DedupRemoveWhileIterating(list) == RemoveLoop(list, 1, {})

\* a deduplication through a dictionary by key: a later record overwrites
\* the earlier one in the earlier one's place
RECURSIVE OverwriteLoop(_, _)
OverwriteLoop(rest, unique_transactions) ==
    IF rest = <<>> THEN unique_transactions
    ELSE LET t == Head(rest)
             held == {k \in DOMAIN unique_transactions :
                          Key(unique_transactions[k]) = Key(t)}
         IN  IF held = {}
             THEN OverwriteLoop(Tail(rest), Append(unique_transactions, t))
             ELSE OverwriteLoop(Tail(rest),
                                [k \in DOMAIN unique_transactions |->
                                    IF k \in held THEN t ELSE unique_transactions[k]])

DedupKeepLast(list) == OverwriteLoop(list, <<>>)

\* the duplicate removal that ends parse_transactions
Dedup(list) == DedupLoop(list, {}, <<>>)

\* CompetitionScraper.parse_transactions
parse_transactions(d) == Dedup(CompetitionCandidates(d))

LetterPairs ==
    { <<"A", "a">>, <<"C", "c">>, <<"D", "d">>, <<"E", "e">>, <<"H", "h">>,
      <<"I", "i">>, <<"N", "n">>, <<"O", "o">>, <<"R", "r">>, <<"S", "s">>,
      <<"T", "t">>, <<"Y", "y">> }

\* the letter c as re.I compares it
LowerChar(c) ==
    IF \E p \in LetterPairs : p[1] = c
    THEN (CHOOSE p \in LetterPairs : p[1] = c)[2]
    ELSE c

Lower(s) == [i \in DOMAIN s |-> LowerChar(s[i])]

\* re.compile(r'.*transaction.*|.*order.*|.*trade.*', re.I) on a class token
LooseClassMatch(token) ==
    \/ Contains(Lower(token), <<"t", "r", "a", "n", "s", "a", "c", "t", "i", "o", "n">>)
    \/ Contains(Lower(token), <<"o", "r", "d", "e", "r">>)
    \/ Contains(Lower(token), <<"t", "r", "a", "d", "e">>)

\* class="table table--primary ranking": the whole attribute, as written
ExactClass(table) == table.classes = <<TableWord, TablePrimary, Ranking>>

LooseClass(table) == \E i \in DOMAIN table.classes : LooseClassMatch(table.classes[i])

\* a find that keeps the last of the tables found
FindLast(found) == IF found = <<>> THEN <<>> ELSE <<found[Len(found)]>>

\* soup.find: the first of the tables found, as a list of at most one
FindFirst(found) == IF found = <<>> THEN <<>> ELSE <<found[1]>>

\* the table of MarketWatchScraper._parse_transactions: the first of the
\* exact class, and only when there is none the first of a loose class
StrictTable(d) ==
    IF FindFirst(SelectSeq(d, ExactClass)) # <<>>
    THEN FindFirst(SelectSeq(d, ExactClass))
    ELSE FindFirst(SelectSeq(d, LooseClass))

\* _parse_transaction_json and _parse_transaction_div return an empty list
ParseTransactionJson == <<>>

ParseTransactionDiv == <<>>

InModule(table) == table.in_module

\* MarketWatchScraper._parse_transactions: scripts, the one table, the div
\* containers, then every table of the transactions module; the list is
\* returned as accumulated
portfolio_parse_transactions(d) ==
    ParseTransactionJson
        \o (IF StrictTable(d) # <<>> THEN ParseTransactionTable(StrictTable(d)[1]) ELSE <<>>)
        \o ParseTransactionDiv
        \o ParseTables(SelectSeq(d, InModule))

---------------------------------------------------------------------------
(* The portfolio pages the parsers are run on.                             *)

GoodHeader ==
    << <<"S", "y", "m", "b", "o", "l">>, <<"O", "r", "d", "e", "r", " ", "D", "a", "t", "e">>, <<"T", "r", "a", "n", "s", "a", "c", "t", "i", "o", "n", " ", "D", "a", "t", "e">>, <<"T", "y", "p", "e">>, <<"A", "m", "o", "u", "n", "t">>, <<"P", "r", "i", "c", "e">> >>

\* a header row that names Symbol and no Order
OtherHeader ==
    << <<"S", "y", "m", "b", "o", "l">>, <<"D", "a", "t", "e">>, <<"T", "y", "p", "e">>, <<"A", "m", "o", "u", "n", "t">>, <<"P", "r", "i", "c", "e">>, <<"T", "o", "t", "a", "l">> >>

\* The rows of the specification's deduplication example, the same order
\* canceled, and an order of another symbol with padded cells
PageRows ==
    { <<AAPL, Jul9_1045a, Jul9_1046a, Buy, <<"1", "0", "0">>, Price150>>,
      <<AAPL, Jul9_1045a, Jul9_1046a, Buy, <<"1", "0", "0">>, Price150_01>>,
      <<AAPL, Jul9_1045a, <<>>, <<"B", "u", "y", " ", "C", "a", "n", "c", "e", "l", "e", "d">>, <<"1", "0", "0">>, PriceNA>>,
      <<<<" ">> \o MSFT \o <<"\n">>, Jul8_0900a, Jul8_0900a, Sell, <<"1", ",", "0", "0", "0">>, Price300>> }

\* Where a table sits and how it is marked: the site's transaction table
\* inside the transactions module; a table--primary table outside it; a
\* table--primary table inside it under another header; a table of a class
\* only the loose expression matches; a ranking table outside the module
\* under another header
TableKinds ==
    { [classes |-> <<TableWord, TablePrimary, Ranking>>, in_module |-> TRUE,
       header |-> GoodHeader],
      [classes |-> <<TablePrimary>>, in_module |-> FALSE, header |-> GoodHeader],
      [classes |-> <<TablePrimary>>, in_module |-> TRUE, header |-> OtherHeader],
      [classes |-> << <<"O", "r", "d", "e", "r", "-", "H", "i", "s", "t", "o", "r", "y">> >>, in_module |-> FALSE,
       header |-> GoodHeader],
      [classes |-> <<TableWord, Ranking>>, in_module |-> FALSE, header |-> OtherHeader] }

MakeTable(kind, rows) ==
    [classes |-> kind.classes, in_module |-> kind.in_module,
     rows |-> <<kind.header>> \o rows]

\* the number of data rows of a page
MaxPageRows == 2

InitParse ==
    /\ \E rows \in SeqsUpTo(PageRows, MaxPageRows) :
           \/ doc = <<>>
           \/ \E k \in TableKinds : doc = <<MakeTable(k, rows)>>
           \/ \E k1 \in TableKinds, k2 \in TableKinds, cut \in 0..Len(rows) :
                  doc = <<MakeTable(k1, SubSeq(rows, 1, cut)),
                          MakeTable(k2, SubSeq(rows, cut + 1, Len(rows)))>>
    /\ candidates = <<>>
    /\ transactions = <<>>
    /\ parse_pc = "input"
    /\ ts_src = <<>>
    /\ ts = <<>>
    /\ norm = <<>>
    /\ competitors = <<>>
    /\ feed = <<>>
    /\ feed_pc = "idle"
    /\ RowsIdle
    /\ ScrapeIdle
    /\ PortfolioIdle
    /\ UpdateIdle
    /\ AutoIdle

\* CompetitionScraper.parse_transactions(soup)
ParseTransactions ==
    /\ parse_pc = "input"
    /\ candidates' = CompetitionCandidates(doc)
    /\ transactions' = parse_transactions(doc)
    /\ parse_pc' = "competition"
    /\ UNCHANGED <<ts_src, ts, norm, competitors, feed, feed_pc, doc,
                   rowVars, scrapeVars,
                   portfolioVars, updateVars, autoVars>>

\* MarketWatchScraper._parse_transactions(soup)
PortfolioParseTransactions ==
    /\ parse_pc = "input"
    /\ candidates' = portfolio_parse_transactions(doc)
    /\ transactions' = portfolio_parse_transactions(doc)
    /\ parse_pc' = "portfolio"
    /\ UNCHANGED <<ts_src, ts, norm, competitors, feed, feed_pc, doc,
                   rowVars, scrapeVars,
                   portfolioVars, updateVars, autoVars>>

NextParse == ParseTransactions \/ PortfolioParseTransactions

SpecParse == InitParse /\ [][NextParse]_vars

---------------------------------------------------------------------------
(* The CSV export parser.  A CSV export is the sequence of the rows that   *)
(* csv.reader yields, the first being the field names; a row is the        *)
(* sequence of its fields' text, and a blank line is the empty row.        *)

\* Python's None: the value csv.DictReader gives a field a short row lacks
NoneValue == <<"None">>

FieldSymbol == <<"S", "y", "m", "b", "o", "l">>
FieldOrderDate == <<"O", "r", "d", "e", "r", " ", "D", "a", "t", "e", "/", "T", "i", "m", "e">>
FieldTransactionDate == <<"T", "r", "a", "n", "s", "a", "c", "t", "i", "o", "n", " ", "D", "a", "t", "e", "/", "T", "i", "m", "e">>
FieldType == <<"T", "y", "p", "e">>
FieldAmount == <<"A", "m", "o", "u", "n", "t">>
FieldPrice == <<"E", "x", ".", " ", "P", "r", "i", "c", "e">>

\* row.get(name, default) on a csv.DictReader row: the field under the
\* column of that name, None where the row ends before that column, and
\* default where no column has that name
RowGet(fieldnames, row, name, default) ==
    IF \E i \in DOMAIN fieldnames : fieldnames[i] = name
    THEN LET i == CHOOSE i \in DOMAIN fieldnames :
                      /\ fieldnames[i] = name
                      /\ \A j \in DOMAIN fieldnames : fieldnames[j] = name => j <= i
         IN  IF i <= Len(row) THEN row[i] ELSE NoneValue
    ELSE default

\* "oversize" stands for the text of a field longer than
\* csv.field_size_limit(), on which the reader raises csv.Error: the export
\* cannot be read as CSV
Oversize == <<"oversize">>

\* the exception that reading a row and the Transaction(...) expression of
\* the CSV loop raise on it: the reader refuses an oversize field, None has
\* no replace, and int() refuses some text that str.isdigit() accepts
CsvRowRaises(fieldnames, row) ==
    LET amount == RowGet(fieldnames, row, FieldAmount, <<"0">>)
        amount_text == Replace(amount, <<",">>, <<>>)
    IN  IF \E i \in DOMAIN row : row[i] = Oversize THEN "csv.Error"
        ELSE IF amount = NoneValue THEN "AttributeError"
        ELSE IF IsDigitStr(amount_text)
                /\ \E i \in 1..Len(amount_text) : amount_text[i] \in DigitLike
             THEN "ValueError"
             ELSE "none"

\* the Transaction the CSV loop builds from a row that raises nothing
CsvTransaction(fieldnames, row) ==
    LET amount_text == Replace(RowGet(fieldnames, row, FieldAmount, <<"0">>), <<",">>, <<>>)
    IN  [symbol |-> RowGet(fieldnames, row, FieldSymbol, <<>>),
         order_date |-> RowGet(fieldnames, row, FieldOrderDate, <<>>),
         transaction_date |-> RowGet(fieldnames, row, FieldTransactionDate, <<>>),
         action |-> RowGet(fieldnames, row, FieldType, <<>>),
         amount |-> IF IsDigitStr(amount_text)
                    THEN IntAt(amount_text, 1, Len(amount_text))
                    ELSE 0,
         price |-> RowGet(fieldnames, row, FieldPrice, <<>>),
         status |-> "Completed"]

\* csv.DictReader passes over blank lines
NotBlank(row) == row # <<>>

\* MarketWatchScraper._parse_transactions_csv: the whole loop stands in one
\* try, and its except clause returns the empty list
parse_transactions_csv(csv_content) ==
    IF csv_content = <<>> THEN <<>>
    ELSE LET fieldnames == Head(csv_content)
             rows == SelectSeq(Tail(csv_content), NotBlank)
         IN  IF \E i \in DOMAIN rows : CsvRowRaises(fieldnames, rows[i]) # "none"
             THEN <<>>
             ELSE [i \in DOMAIN rows |-> CsvTransaction(fieldnames, rows[i])]

\* except Exception as e: the exceptions that clause catches
CsvHandler == {"ValueError", "IndexError", "AttributeError", "csv.Error"}

NotCaughtByCsv(exception) == exception \notin CsvHandler \cup {"none"}

\* the exception that leaves _parse_transactions_csv
CsvRaises(csv_content) ==
    IF csv_content = <<>> THEN "none"
    ELSE LET rows == SelectSeq(Tail(csv_content), NotBlank)
             uncaught == SelectSeq([i \in DOMAIN rows |->
                                       CsvRowRaises(Head(csv_content), rows[i])],
                                   NotCaughtByCsv)
         IN  IF uncaught = <<>> THEN "none" ELSE uncaught[1]

\* the exception the try body of the table parsers' row loop raises on a
\* row: int() refuses some text that str.isdigit() accepts
RowRaises(cells) ==
    IF Len(cells) < 6 THEN "none"
    ELSE LET amount_text == Replace(GetText(cells[5]), <<",">>, <<>>)
         IN  IF IsDigitStr(amount_text)
                /\ \E i \in 1..Len(amount_text) : amount_text[i] \in DigitLike
             THEN "ValueError"
             ELSE "none"

\* except (ValueError, IndexError) as e: continue
RowHandler == {"ValueError", "IndexError"}

NotCaughtByRow(exception) == exception \notin RowHandler \cup {"none"}

\* the exception that leaves _parse_transaction_table
TableRaises(table) ==
    LET rows == IF table.rows = <<>> THEN <<>> ELSE Tail(table.rows)
        uncaught == SelectSeq([i \in DOMAIN rows |-> RowRaises(rows[i])],
                              NotCaughtByRow)
    IN  IF uncaught = <<>> THEN "none" ELSE uncaught[1]

---------------------------------------------------------------------------
(* The tables and CSV exports the table parsers and the CSV parser are run *)
(* on: well-formed rows among malformed ones.                              *)

CsvHeader ==
    <<FieldSymbol, FieldOrderDate, FieldTransactionDate, FieldType, FieldAmount, FieldPrice>>

\* an export whose quantity column goes by another name
CsvHeaderNoAmount ==
    <<FieldSymbol, FieldOrderDate, FieldTransactionDate, FieldType, <<"Q", "u", "a", "n", "t", "i", "t", "y">>, FieldPrice>>

BuyCanceled == <<"B", "u", "y", " ", "C", "a", "n", "c", "e", "l", "e", "d">>

\* The specification's example row; a padded row with a thousands
\* separator; rows of 4, 5 and 0 cells; a row of 7 cells; amounts that are
\* negative, padded or a digit-like character; an empty symbol under an
\* unrecognized action; canceled orders; a row with an oversize field
SheetRows ==
    { <<AAPL, Jul9_1045a, Jul9_1046a, Buy, <<"1", "0", "0">>, Price150>>,
      <<<<" ", "M", "S", "F", "T", "\n">>, Jul8_0900a, Jul8_0900a, <<" ", "S", "e", "l", "l", " ">>, <<"1", ",", "0", "0", "0">>, Price300>>,
      <<TSLA, Jul9_0200p, Jul9_0200p, Sell>>,
      <<TSLA, Jul9_0200p, Jul9_0200p, Short, <<"2", "5">>>>,
      <<>>,
      <<NVDA, Jul9_0200p, Jul9_0200p, Cover, <<" ", "7">>, Price300, <<"$", "2", ",", "1", "0", "0", ".", "0", "0">>>>,
      <<TSLA, Jul8_0900a, Jul8_0900a, Short, <<"-", "5">>, Price300>>,
      <<NVDA, Jul8_0900a, Jul8_0900a, Buy, <<"1", "sup2">>, Price150>>,
      <<<<>>, Jul9_1046a, <<>>, <<"T", "r", "a", "n", "s", "f", "e", "r", " ", "I", "n">>, <<"N", "/", "A">>, PriceNA>>,
      <<GOOG, Jul9_1045a, <<>>, BuyCanceled, <<"1", "0", "0">>, PriceNA>>,
      <<GOOG, Jul9_1046a, <<>>, <<"C", "a", "n", "c", "e", "l", "e", "d">>, <<"3">>, PriceNA>>,
      <<MSFT, Jul9_0200p, Jul9_0200p, Sell, <<"5">>, Oversize>> }

\* the number of data rows of a table or CSV export
MaxSheetRows == 2

InitRows ==
    /\ \E rows \in SeqsUpTo(SheetRows, MaxSheetRows) :
           \/ sheet = [kind |-> "table", rows |-> <<GoodHeader>> \o rows]
           \/ \E fieldnames \in {CsvHeader, CsvHeaderNoAmount} :
                  sheet = [kind |-> "csv", rows |-> <<fieldnames>> \o rows]
    /\ parsed = <<>>
    /\ raised = "none"
    /\ rows_pc = "input"
    /\ ts_src = <<>>
    /\ ts = <<>>
    /\ norm = <<>>
    /\ competitors = <<>>
    /\ feed = <<>>
    /\ feed_pc = "idle"
    /\ doc = <<>>
    /\ candidates = <<>>
    /\ transactions = <<>>
    /\ parse_pc = "idle"
    /\ ScrapeIdle
    /\ PortfolioIdle
    /\ UpdateIdle
    /\ AutoIdle

\* CompetitionScraper._parse_transaction_table(table)
CompetitionParseTable ==
    /\ rows_pc = "input"
    /\ sheet.kind = "table"
    /\ parsed' = ParseTransactionTable(sheet)
    /\ raised' = TableRaises(sheet)
    /\ rows_pc' = "competition_table"
    /\ UNCHANGED <<ts_src, ts, norm, competitors, feed, feed_pc,
                   doc, candidates, transactions, parse_pc, sheet, scrapeVars,
                   portfolioVars, updateVars, autoVars>>

\* MarketWatchScraper._parse_transaction_table(table)
PortfolioParseTable ==
    /\ rows_pc = "input"
    /\ sheet.kind = "table"
    /\ parsed' = ParseTransactionTable(sheet)
    /\ raised' = TableRaises(sheet)
    /\ rows_pc' = "portfolio_table"
    /\ UNCHANGED <<ts_src, ts, norm, competitors, feed, feed_pc,
                   doc, candidates, transactions, parse_pc, sheet, scrapeVars,
                   portfolioVars, updateVars, autoVars>>

\* MarketWatchScraper._parse_transactions_csv(csv_content)
ParseTransactionsCsv ==
    /\ rows_pc = "input"
    /\ sheet.kind = "csv"
    /\ parsed' = parse_transactions_csv(sheet.rows)
    /\ raised' = CsvRaises(sheet.rows)
    /\ rows_pc' = "csv"
    /\ UNCHANGED <<ts_src, ts, norm, competitors, feed, feed_pc,
                   doc, candidates, transactions, parse_pc, sheet, scrapeVars,
                   portfolioVars, updateVars, autoVars>>

NextRows == CompetitionParseTable \/ PortfolioParseTable \/ ParseTransactionsCsv

SpecRows == InitRows /\ [][NextRows]_vars

---------------------------------------------------------------------------
(* Scraping the participants.  The server's answer for a public id is its  *)
(* performance response (whether the request succeeds, and the values list *)
(* of its JSON) and its portfolio page (whether the request succeeds, the  *)
(* text of the h1.player-name and div.profile-name elements, each a list   *)
(* of at most one text, and the tables).                                   *)

Unknown == <<"U", "n", "k", "n", "o", "w", "n">>

UnknownPlayer == <<"U", "n", "k", "n", "o", "w", "n", " ", "P", "l", "a", "y", "e", "r">>

\* latest.get(key, default)
DictGet(d, key, default) == IF key \in DOMAIN d THEN d[key] ELSE default

\* CompetitionScraper.get_competitor_name
get_competitor_name(page) ==
    IF page.player_name # <<>> THEN GetText(page.player_name[1])
    ELSE IF page.profile_name # <<>> THEN GetText(page.profile_name[1])
    ELSE UnknownPlayer

\* a scrape_competitor that gives up on a participant whose page cannot be
\* fetched
scrape_competitor_page_required(public_id, answer) ==
    IF ~answer.performance.ok \/ answer.performance.values = <<>>
          \/ ~answer.page.ok
    THEN <<>>
    ELSE LET latest == answer.performance.values[Len(answer.performance.values)]
         IN  <<[public_id |-> public_id,
                name |-> get_competitor_name(answer.page),
                rank |-> DictGet(latest, "r", 0),
                portfolio_value |-> DictGet(latest, "w", 0),
                return_percentage |-> DictGet(latest, "p", 0),
                return_dollars |-> DictGet(latest, "g", 0),
                transactions |-> parse_transactions(answer.page.tables)]>>

\* CompetitionScraper.scrape_competitor: the list of the Competitor it
\* returns, empty when it returns None
scrape_competitor(public_id, answer) ==
    IF ~answer.performance.ok THEN <<>>
    ELSE IF answer.performance.values = <<>> THEN <<>>
    ELSE LET latest == answer.performance.values[Len(answer.performance.values)]
         IN  <<[public_id |-> public_id,
                name |-> IF answer.page.ok THEN get_competitor_name(answer.page)
                         ELSE Unknown,
                rank |-> DictGet(latest, "r", 0),
                portfolio_value |-> DictGet(latest, "w", 0),
                return_percentage |-> DictGet(latest, "p", 0),
                return_dollars |-> DictGet(latest, "g", 0),
                transactions |-> IF answer.page.ok
                                 THEN parse_transactions(answer.page.tables)
                                 ELSE <<>>]>>

\* the requests scrape_competitor sends: the performance request, and the
\* page request once the performance response has values
RequestsOf(public_id, answer) ==
    IF answer.performance.ok /\ answer.performance.values # <<>>
    THEN <<[public_id |-> public_id, url |-> "portfolioPerformance"],
           [public_id |-> public_id, url |-> "portfolio"]>>
    ELSE <<[public_id |-> public_id, url |-> "portfolioPerformance"]>>

PublicIds == {"p1", "p2", "p3"}

\* two snapshots, the latest last, and one without a rank
Snapshots ==
    << [r |-> 5, w |-> 100000, p |-> 0, g |-> 0],
       [r |-> 3, w |-> 105250, p |-> 5, g |-> 5250] >>

SnapshotNoRank == << [w |-> 98000, p |-> 0 - 2, g |-> 0 - 2000] >>

\* a portfolio page: the player's name in a padded heading, and the
\* transaction table with a completed and a canceled order
PortfolioPage ==
    [ok |-> TRUE, player_name |-> << <<" ", "A", "l", "i", "c", "e", "\n">> >>, profile_name |-> <<>>,
     tables |-> << [classes |-> <<TableWord, TablePrimary, Ranking>>, in_module |-> TRUE,
                    rows |-> <<GoodHeader,
                               <<AAPL, Jul9_1045a, Jul9_1046a, Buy, <<"1", "0", "0">>, Price150>>,
                               <<GOOG, Jul9_1046a, <<>>, BuyCanceled, <<"1", "0", "0">>, PriceNA>>>>] >>]

\* a page whose table lists a canceled order above the same order placed
\* again in the same minute and executed
ReplacedOrderPage ==
    [ok |-> TRUE, player_name |-> << <<"B", "o", "b">> >>, profile_name |-> <<>>,
     tables |-> << [classes |-> <<TableWord, TablePrimary, Ranking>>, in_module |-> TRUE,
                    rows |-> <<GoodHeader,
                               <<AAPL, Jul9_1045a, <<>>, BuyCanceled, <<"1", "0", "0">>, PriceNA>>,
                               <<AAPL, Jul9_1045a, Jul9_1046a, Buy, <<"1", "0", "0">>, Price150>>>>] >>]

\* a page with no name element and no table
BarePage == [ok |-> TRUE, player_name |-> <<>>, profile_name |-> <<>>, tables |-> <<>>]

\* the page request fails
NoPage == [ok |-> FALSE, player_name |-> <<>>, profile_name |-> <<>>, tables |-> <<>>]

\* The answers of the server: the performance request fails; its JSON has
\* no values; the page request fails; both succeed, with one page or another
Answers ==
    { [performance |-> [ok |-> FALSE, values |-> <<>>], page |-> PortfolioPage],
      [performance |-> [ok |-> TRUE, values |-> <<>>], page |-> PortfolioPage],
      [performance |-> [ok |-> TRUE, values |-> Snapshots], page |-> NoPage],
      [performance |-> [ok |-> TRUE, values |-> Snapshots], page |-> PortfolioPage],
      [performance |-> [ok |-> TRUE, values |-> SnapshotNoRank], page |-> BarePage],
      [performance |-> [ok |-> TRUE, values |-> Snapshots], page |-> ReplacedOrderPage] }

\* the length of the participant list
MaxIds == 3

InitScrape ==
    /\ public_ids \in SeqsUpTo(PublicIds, MaxIds)
    /\ site \in [PublicIds -> Answers]
    /\ fetched = <<>>
    /\ scrape_i = 1
    /\ competitors = <<>>
    /\ feed = <<>>
    /\ feed_pc = "input"
    /\ ts_src = <<>>
    /\ ts = <<>>
    /\ norm = <<>>
    /\ doc = <<>>
    /\ candidates = <<>>
    /\ transactions = <<>>
    /\ parse_pc = "idle"
    /\ RowsIdle
    /\ PortfolioIdle
    /\ UpdateIdle
    /\ AutoIdle

\* a loop that the first failed participant ends
ScrapeStopsAtFailure ==
    /\ scrape_i \in 1..Len(public_ids)
    /\ LET public_id == public_ids[scrape_i]
           competitor == scrape_competitor(public_id, site[public_id])
       IN  /\ fetched' = fetched \o RequestsOf(public_id, site[public_id])
           /\ competitors' = competitors \o competitor
           /\ scrape_i' = IF competitor = <<>> THEN Len(public_ids) + 1
                          ELSE scrape_i + 1
    /\ UNCHANGED <<ts_src, ts, norm, feed, feed_pc,
                   doc, candidates, transactions, parse_pc, rowVars, public_ids, site,
                   portfolioVars, updateVars, autoVars>>

\* One turn of the loop of scrape_all_competitors: scrape_competitor on the
\* next public id, and its Competitor appended if there is one
ScrapeNextCompetitor ==
    /\ scrape_i \in 1..Len(public_ids)
    /\ LET public_id == public_ids[scrape_i]
           competitor == scrape_competitor(public_id, site[public_id])
       IN  /\ fetched' = fetched \o RequestsOf(public_id, site[public_id])
           /\ competitors' = IF competitor # <<>> THEN Append(competitors, competitor[1])
                             ELSE competitors
    /\ scrape_i' = scrape_i + 1
    /\ UNCHANGED <<ts_src, ts, norm, feed, feed_pc,
                   doc, candidates, transactions, parse_pc, rowVars, public_ids, site,
                   portfolioVars, updateVars, autoVars>>

\* main: create_activity_feed on the list scrape_all_competitors returned
MainCreateActivityFeed ==
    /\ scrape_i = Len(public_ids) + 1
    /\ feed_pc = "input"
    /\ feed' = create_activity_feed(competitors)
    /\ feed_pc' = "done"
    /\ UNCHANGED <<ts_src, ts, norm, competitors,
                   doc, candidates, transactions, parse_pc, rowVars, scrapeVars,
                   portfolioVars, updateVars, autoVars>>

NextScrape == ScrapeNextCompetitor \/ MainCreateActivityFeed

SpecScrape == InitScrape /\ [][NextScrape]_vars

---------------------------------------------------------------------------
(* update_frontend_data.  The leaderboard is whether its request succeeds  *)
(* and the (public id, name, rank) entries its page lists; a data file is  *)
(* whether it exists, whether json.dump finished writing it, and the       *)
(* competitors and activity feed it holds.                                 *)

\* scrape_leaderboard: the entries of the page, and the empty list when
\* the request fails
scrape_leaderboard(board) == IF board.ok THEN board.entries ELSE <<>>

\* scrape_all_competitors: the Competitors of the public ids that
\* scrape_competitor has one for, in the order of the ids
RECURSIVE scrape_all_competitors(_, _)
scrape_all_competitors(ids, answers) ==
    IF ids = <<>> THEN <<>>
    ELSE scrape_competitor(Head(ids), answers[Head(ids)])
             \o scrape_all_competitors(Tail(ids), answers)

\* Transaction.to_dict
TransactionToDict(t) ==
    [symbol |-> t.symbol, order_date |-> t.order_date,
     transaction_date |-> t.transaction_date, action |-> t.action,
     amount |-> t.amount, price |-> t.price, status |-> t.status]

\* Competitor.to_dict
CompetitorToDict(c) ==
    [public_id |-> c.public_id, name |-> c.name, rank |-> c.rank,
     portfolio_value |-> c.portfolio_value,
     return_percentage |-> c.return_percentage,
     return_dollars |-> c.return_dollars,
     transactions |-> [i \in DOMAIN c.transactions |-> TransactionToDict(c.transactions[i])]]

\* the frontend_data dictionary
FrontendData(scraped, activity_feed) ==
    [competitors |-> [i \in DOMAIN scraped |-> CompetitorToDict(scraped[i])],
     activity_feed |-> activity_feed]

NoFile == [exists |-> FALSE, complete |-> FALSE, competitors |-> <<>>, activity_feed |-> <<>>]

\* the file after json.dump returned
Written(data) ==
    [exists |-> TRUE, complete |-> TRUE, competitors |-> data.competitors,
     activity_feed |-> data.activity_feed]

\* the file after open(..., 'w') emptied it and json.dump raised
Truncated == [exists |-> TRUE, complete |-> FALSE, competitors |-> <<>>, activity_feed |-> <<>>]

\* the length of the leaderboard
MaxBoard == 2

BoardName == <<"P", "l", "a", "y", "e", "r">>

Entry(public_id) == <<public_id, BoardName, 1>>

Boards ==
    {[ok |-> FALSE, entries |-> <<>>]}
        \cup {[ok |-> TRUE, entries |-> [i \in DOMAIN ids |-> Entry(ids[i])]] :
                  ids \in SeqsUpTo(PublicIds, MaxBoard)}

\* the answers of the server during an update: the performance request
\* fails; the page request fails; both succeed
UpdateAnswers ==
    { [performance |-> [ok |-> FALSE, values |-> <<>>], page |-> PortfolioPage],
      [performance |-> [ok |-> TRUE, values |-> Snapshots], page |-> NoPage],
      [performance |-> [ok |-> TRUE, values |-> Snapshots], page |-> PortfolioPage] }

\* what an earlier update that scraped p1 and p2 wrote
EarlierAnswers ==
    [id \in PublicIds |-> [performance |-> [ok |-> TRUE, values |-> Snapshots], page |-> PortfolioPage]]

EarlierData ==
    FrontendData(scrape_all_competitors(<<"p1", "p2">>, EarlierAnswers),
                 create_activity_feed(scrape_all_competitors(<<"p1", "p2">>, EarlierAnswers)))

\* what happens to the files: nothing fails; open raises; json.dump raises
\* after open emptied the file; shutil.copy raises
IoOutcomes == {"ok", "open raises", "dump raises", "copy raises"}

InitUpdate ==
    /\ leaderboard \in Boards
    /\ site \in [PublicIds -> UpdateAnswers]
    /\ data_file \in {NoFile, Written(EarlierData)}
    /\ frontend_file \in {NoFile, data_file}
    /\ update_pc = "input"
    /\ public_ids = <<>>
    /\ fetched = <<>>
    /\ scrape_i = 0
    /\ competitors = <<>>
    /\ feed = <<>>
    /\ feed_pc = "idle"
    /\ DateIdle
    /\ ParseIdle
    /\ RowsIdle
    /\ PortfolioIdle
    /\ AutoIdle

\* update_frontend_data(): the leaderboard, the participants, the feed, the
\* data file and its copy under frontend/public when that directory
\* exists; any exception ends the call
UpdateFrontendData ==
    /\ update_pc = "input"
    /\ \E frontend_public \in BOOLEAN, io \in IoOutcomes :
           LET competitors_info == scrape_leaderboard(leaderboard)
               ids == [i \in DOMAIN competitors_info |-> competitors_info[i][1]]
               scraped == scrape_all_competitors(ids, site)
               activity_feed == create_activity_feed(scraped)
               frontend_data == FrontendData(scraped, activity_feed)
           IN  /\ io = "copy raises" => frontend_public
               /\ public_ids' = ids
               /\ competitors' = scraped
               /\ feed' = activity_feed
               /\ data_file' = CASE io = "open raises" -> data_file
                                 [] io = "dump raises" -> Truncated
                                 [] OTHER -> Written(frontend_data)
               /\ frontend_file' = IF io = "ok" /\ frontend_public
                                   THEN Written(frontend_data)
                                   ELSE frontend_file
               /\ update_pc' = IF io = "ok" THEN "done" ELSE "raised"
    /\ UNCHANGED <<ts_src, ts, norm, feed_pc, doc, candidates, transactions,
                   parse_pc, rowVars, site, fetched, scrape_i, leaderboard,
                   portfolioVars, autoVars>>

NextUpdate == UpdateFrontendData

SpecUpdate == InitUpdate /\ [][NextUpdate]_vars

---------------------------------------------------------------------------
(* auto_scraper.py.  auto_pc is where main stands: at its start, before    *)
(* one of the three subprocesses of run_scrapers, after run_scrapers       *)
(* returned, after the sleep, or stopped by a KeyboardInterrupt.           *)
(* auto_steps lists the subprocesses the current run has run with how each *)
(* ended; auto_result is what the last finished run_scrapers returned;     *)
(* auto_runs counts the runs started.                                      *)

\* the runs counted
MaxRuns == 3

\* how subprocess.run ends: the exit status is 0; it is not 0; the timeout
\* expires; another exception is raised
TimedOutcomes == {"0", "nonzero", "TimeoutExpired", "Exception"}

\* the cp step is run without a timeout
UntimedOutcomes == {"0", "nonzero", "Exception"}

InitAuto ==
    /\ auto_pc = "main"
    /\ auto_steps = <<>>
    /\ auto_result = "none"
    /\ auto_runs = 0
    /\ DateIdle
    /\ FeedIdle
    /\ ParseIdle
    /\ RowsIdle
    /\ ScrapeIdle
    /\ PortfolioIdle
    /\ UpdateIdle

\* main calls run_scrapers: at once when it starts, and after each sleep
BeginRun ==
    /\ auto_pc \in {"main", "slept"}
    /\ auto_pc' = "leaderboard"
    /\ auto_steps' = <<>>
    /\ auto_runs' = IF auto_runs < MaxRuns THEN auto_runs + 1 ELSE auto_runs
    /\ UNCHANGED auto_result

\* a leaderboard step after which the run goes on whatever the exit status
RunLeaderboardIgnoringStatus ==
    /\ auto_pc = "leaderboard"
    /\ \E outcome \in TimedOutcomes :
           /\ auto_steps' = Append(auto_steps, [step |-> "leaderboard", outcome |-> outcome])
           /\ auto_pc' = IF outcome \in {"0", "nonzero"} THEN "competition" ELSE "returned"
           /\ auto_result' = IF outcome \in {"0", "nonzero"} THEN auto_result ELSE "False"
    /\ UNCHANGED auto_runs

\* run_scrapers, step 1: leaderboard_scraper.py with a timeout of 120 s
RunLeaderboard ==
    /\ auto_pc = "leaderboard"
    /\ \E outcome \in TimedOutcomes :
           /\ auto_steps' = Append(auto_steps, [step |-> "leaderboard", outcome |-> outcome])
           /\ auto_pc' = IF outcome = "0" THEN "competition" ELSE "returned"
           /\ auto_result' = IF outcome = "0" THEN auto_result ELSE "False"
    /\ UNCHANGED auto_runs

\* run_scrapers, step 2: competition_scraper.py with a timeout of 300 s
RunCompetition ==
    /\ auto_pc = "competition"
    /\ \E outcome \in TimedOutcomes :
           /\ auto_steps' = Append(auto_steps, [step |-> "competition", outcome |-> outcome])
           /\ auto_pc' = IF outcome = "0" THEN "copy" ELSE "returned"
           /\ auto_result' = IF outcome = "0" THEN auto_result ELSE "False"
    /\ UNCHANGED auto_runs

\* run_scrapers, step 3: cp competition_data.json frontend/public/, and
\* the return
RunCopy ==
    /\ auto_pc = "copy"
    /\ \E outcome \in UntimedOutcomes :
           /\ auto_steps' = Append(auto_steps, [step |-> "copy", outcome |-> outcome])
           /\ auto_result' = IF outcome = "0" THEN "True" ELSE "False"
    /\ auto_pc' = "returned"
    /\ UNCHANGED auto_runs

\* a loop that a failed run ends
SleepUnlessFailed ==
    /\ auto_pc = "returned"
    /\ auto_pc' = IF auto_result = "False" THEN "halted" ELSE "slept"
    /\ UNCHANGED <<auto_steps, auto_result, auto_runs>>

\* main: time.sleep(300); the value run_scrapers returned is not looked at
Sleep ==
    /\ auto_pc = "returned"
    /\ auto_pc' = "slept"
    /\ UNCHANGED <<auto_steps, auto_result, auto_runs>>

\* a KeyboardInterrupt ends the process wherever main stands
Interrupt ==
    /\ auto_pc # "stopped"
    /\ auto_pc' = "stopped"
    /\ UNCHANGED <<auto_steps, auto_result, auto_runs>>

NextAuto ==
    /\ \/ BeginRun
       \/ RunLeaderboard
       \/ RunCompetition
       \/ RunCopy
       \/ Sleep
       \/ Interrupt
    /\ UNCHANGED <<ts_src, ts, norm, competitors, feed, feed_pc, doc,
                   candidates, transactions, parse_pc, rowVars, scrapeVars,
                   portfolioVars, updateVars>>

SpecAuto == InitAuto /\ [][NextAuto]_vars

\* subprocess.run returns or raises, time.sleep returns, and main goes on:
\* every step of the program other than the interrupt is taken once it can be
SpecAutoFair ==
    /\ SpecAuto
    /\ WF_vars(BeginRun /\ NextAuto)
    /\ WF_vars(RunLeaderboard /\ NextAuto)
    /\ WF_vars(RunCompetition /\ NextAuto)
    /\ WF_vars(RunCopy /\ NextAuto)
    /\ WF_vars(Sleep /\ NextAuto)

---------------------------------------------------------------------------
(* MarketWatchScraper.get_portfolio_performance.  The account is the       *)
(* server's three answers: the performance response (whether the request   *)
(* succeeds, what its body is, the values of its JSON), the portfolio page  *)
(* (whether the request succeeds, its tables) and the CSV export (whether   *)
(* the request succeeds, its rows).  An Optional list is a record of        *)
(* whether it is None and of the list.                                      *)

None == [is_none |-> TRUE, value |-> <<>>]

Some(list) == [is_none |-> FALSE, value |-> list]

\* `not transactions`: None and the empty list
Falsy(optional) == optional.is_none \/ optional.value = <<>>

\* get_transactions: None when the page request fails or the parser raises
get_transactions(acct) ==
    IF ~acct.page.ok THEN None
    ELSE IF \E i \in DOMAIN acct.page.tables : TableRaises(acct.page.tables[i]) # "none"
    THEN None
    ELSE Some(portfolio_parse_transactions(acct.page.tables))

\* get_transactions_csv: None when the export request fails or the parser
\* raises
get_transactions_csv(acct) ==
    IF ~acct.export.ok THEN None
    ELSE IF CsvRaises(acct.export.rows) # "none" THEN None
    ELSE Some(parse_transactions_csv(acct.export.rows))

\* _parse_portfolio_data: the latest values, zeros without any, and an
\* empty transaction list
parse_portfolio_data(values) ==
    [current_rank |-> IF values = <<>> THEN 0 ELSE DictGet(values[Len(values)], "r", 0),
     current_value |-> IF values = <<>> THEN 0 ELSE DictGet(values[Len(values)], "w", 0),
     daily_performance |-> values,
     transactions |-> Some(<<>>)]

\* the transactions get_portfolio_performance settles on, before `or []`
SettledTransactions(acct) ==
    IF Falsy(get_transactions(acct)) /\ ~Falsy(get_transactions_csv(acct))
    THEN get_transactions_csv(acct)
    ELSE get_transactions(acct)

\* a get_portfolio_performance that fetches the export every time and
\* takes its records whenever there are any
get_portfolio_performance_csv_first(acct) ==
    IF ~acct.performance.ok \/ acct.performance.body = "invalid"
    THEN [returned |-> "None", data |-> parse_portfolio_data(<<>>),
          requests |-> <<"portfolioPerformance">>]
    ELSE IF acct.performance.body = "array"
    THEN [returned |-> "AttributeError", data |-> parse_portfolio_data(<<>>),
          requests |-> <<"portfolioPerformance", "portfolio", "download">>]
    ELSE [returned |-> "PortfolioData",
          data |-> [parse_portfolio_data(acct.performance.values) EXCEPT
                        !.transactions =
                            IF ~Falsy(get_transactions_csv(acct))
                            THEN get_transactions_csv(acct)
                            ELSE Some(get_transactions(acct).value)],
          requests |-> <<"portfolioPerformance", "portfolio", "download">>]

\* get_portfolio_performance: what the call returns (a PortfolioData, None,
\* or the exception that leaves it), the PortfolioData, and the requests
\* sent, in order
get_portfolio_performance(acct) ==
    IF ~acct.performance.ok \/ acct.performance.body = "invalid"
    THEN [returned |-> "None", data |-> parse_portfolio_data(<<>>),
          requests |-> <<"portfolioPerformance">>]
    ELSE LET requests == <<"portfolioPerformance", "portfolio">>
                             \o (IF Falsy(get_transactions(acct)) THEN <<"download">> ELSE <<>>)
         IN  IF acct.performance.body = "array"
             THEN [returned |-> "AttributeError", data |-> parse_portfolio_data(<<>>),
                   requests |-> requests]
             ELSE [returned |-> "PortfolioData",
                   data |-> [parse_portfolio_data(acct.performance.values) EXCEPT
                                 !.transactions = Some(SettledTransactions(acct).value)],
                   requests |-> requests]

\* the performance responses: the request fails; the body is not JSON; the
\* JSON is an array; an object without values; an object with values
Performances ==
    { [ok |-> FALSE, body |-> "object", values |-> <<>>],
      [ok |-> TRUE, body |-> "invalid", values |-> <<>>],
      [ok |-> TRUE, body |-> "array", values |-> <<>>],
      [ok |-> TRUE, body |-> "object", values |-> <<>>],
      [ok |-> TRUE, body |-> "object", values |-> Snapshots] }

\* the site's transaction table with the given orders
SiteTable(rows) ==
    [classes |-> <<TableWord, TablePrimary, Ranking>>, in_module |-> TRUE,
     rows |-> <<GoodHeader>> \o rows]

\* the request fails; the page has no table; it has the site's table
Pages ==
    {[ok |-> FALSE, tables |-> <<>>], [ok |-> TRUE, tables |-> <<>>]}
        \cup {[ok |-> TRUE, tables |-> <<SiteTable(rows)>>] :
                  rows \in SeqsUpTo(PageRows, MaxPageRows)}

\* rows of an export: two orders and a row that ends after its type
ExportRows ==
    { <<AAPL, Jul9_1045a, Jul9_1046a, Buy, <<"1", "0", "0">>, Price150>>,
      <<MSFT, Jul8_0900a, Jul8_0900a, Sell, <<"1", ",", "0", "0", "0">>, Price300>>,
      <<TSLA, Jul9_0200p, Jul9_0200p, Sell>> }

\* the request fails; the export has a header and rows
Exports ==
    {[ok |-> FALSE, rows |-> <<>>]}
        \cup {[ok |-> TRUE, rows |-> <<CsvHeader>> \o rows] :
                  rows \in SeqsUpTo(ExportRows, MaxSheetRows)}

InitPortfolio ==
    /\ account \in [performance : Performances, page : Pages, export : Exports]
    /\ portfolio_data = None
    /\ requested = <<>>
    /\ portfolio_pc = "input"
    /\ DateIdle
    /\ FeedIdle
    /\ ParseIdle
    /\ RowsIdle
    /\ ScrapeIdle
    /\ UpdateIdle
    /\ AutoIdle

\* scraper.get_portfolio_performance()
GetPortfolioPerformance ==
    /\ portfolio_pc = "input"
    /\ portfolio_data' = get_portfolio_performance(account).data
    /\ requested' = get_portfolio_performance(account).requests
    /\ portfolio_pc' = get_portfolio_performance(account).returned
    /\ UNCHANGED <<ts_src, ts, norm, competitors, feed, feed_pc, doc,
                   candidates, transactions, parse_pc, rowVars, scrapeVars,
                   account, updateVars, autoVars>>

NextPortfolio == GetPortfolioPerformance

SpecPortfolio == InitPortfolio /\ [][NextPortfolio]_vars

---------------------------------------------------------------------------
(* Claims about the timestamp normalizer, checked under SpecDate.          *)

IsDatetime(v) == Len(v) = 5 /\ \A k \in 1..5 : v[k] \in Nat

\* C7: parse_date is total: for every input text it returns a date-time and
\* raises nothing; wherever a step of its try block fails, and for every
\* text that is empty, blank, has the wrong number of space- or
\* slash-separated parts, or is non-numeric garbage, the value returned is
\* the minimum date-time.
TimestampTotality ==
    norm # <<>> =>
        \A i \in 1..Len(ts) :
            /\ IsDatetime(norm[i])
            /\ ~ParseDateTry(ts[i]).ok => norm[i] = DatetimeMin
            /\ ts_src[i].kind = "garbage" => norm[i] = DatetimeMin

TimestampTotalityWitness ==
    /\ norm # <<>>
    /\ ts_src[1].kind = "garbage"
    /\ ts[1] # <<>>
    /\ ~ParseDateTry(ts[1]).ok
    /\ norm[1] = DatetimeMin
    /\ norm[2] # DatetimeMin

\* The 24-hour hour of a 12-hour time: 12:MMa is 0, 12:MMp is 12, H:MMp is H+12
Hour24(c) ==
    IF c.ap = "a" THEN (IF c.H = 12 THEN 0 ELSE c.H)
    ELSE (IF c.H = 12 THEN 12 ELSE c.H + 12)

\* A count of minutes that grows with the calendar time of a timestamp
Chrono(c) ==
    (((((2000 + c.YY) * 12 + c.M) * 31 + c.D) * 24 + Hour24(c)) * 60) + c.MM

\* C8: for a well-formed timestamp "<M>/<D>/<YY> <H>:<MM><a|p> ET" parse_date
\* returns year 2000+YY, month M, day D, the 12-hour time as 24-hour time and
\* minute MM; the values of two well-formed timestamps compare as the
\* timestamps do in time.
TimestampChronological ==
    norm # <<>> =>
        /\ \A i \in 1..Len(ts) :
               ts_src[i].kind = "wellformed" =>
                   norm[i] = <<2000 + ts_src[i].YY, ts_src[i].M, ts_src[i].D,
                               Hour24(ts_src[i]), ts_src[i].MM>>
        /\ (ts_src[1].kind = "wellformed" /\ ts_src[2].kind = "wellformed") =>
               /\ DtLess(norm[1], norm[2]) <=> Chrono(ts_src[1]) < Chrono(ts_src[2])
               /\ norm[1] = norm[2] <=> Chrono(ts_src[1]) = Chrono(ts_src[2])

TimestampChronologicalWitness ==
    /\ norm # <<>>
    /\ ts_src[1].kind = "wellformed" /\ ts_src[2].kind = "wellformed"
    /\ ts_src[1].H = 12 /\ ts_src[1].ap = "a"
    /\ ts_src[2].H = 11 /\ ts_src[2].ap = "a"
    /\ ts_src[1].M = 10 /\ ts_src[2].M = 2 /\ ts_src[1].YY = 9 /\ ts_src[2].YY = 25
    /\ norm[1][4] = 0
    /\ DtLess(norm[1], norm[2])

---------------------------------------------------------------------------
(* Claims about the feed assembler, checked under SpecFeed.                *)

\* item carries transaction t's fields and competitor c's name, rank and value
DerivedFrom(item, c, t) ==
    /\ item.timestamp = t.order_date
    /\ item.action = t.action
    /\ item.symbol = t.symbol
    /\ item.amount = t.amount
    /\ item.price = t.price
    /\ item.player_name = c.name
    /\ item.player_rank = c.rank
    /\ item.portfolio_value = c.portfolio_value

\* the positions <<i, j>> of the transactions that are not canceled
Live ==
    UNION {{<<i, j>> : j \in {n \in DOMAIN competitors[i].transactions :
                                  competitors[i].transactions[n].status # "Canceled"}} :
           i \in DOMAIN competitors}

OwnerOf(p) == competitors[p[1]]

TxAt(p) == competitors[p[1]].transactions[p[2]]

\* C3: no canceled transaction produces a feed item: every item of the feed
\* is derived from a transaction whose status is not Canceled.
FeedExcludesCanceled ==
    feed_pc = "done" =>
        \A k \in DOMAIN feed :
            \E p \in Live : DerivedFrom(feed[k], OwnerOf(p), TxAt(p))

FeedExcludesCanceledWitness ==
    /\ feed_pc = "done"
    /\ Len(feed) >= 2
    /\ \E i \in DOMAIN competitors :
           \E j \in DOMAIN competitors[i].transactions :
               competitors[i].transactions[j].status = "Canceled"

\* C4: the feed holds exactly one item per transaction that is not canceled,
\* of every competitor, carrying that transaction's order_date (as
\* timestamp), action, symbol, amount and price and its owner's name, rank
\* and portfolio_value: as many items as such transactions, and each item
\* as often as there are transactions it is derived from.
FeedOneItemPerTransaction ==
    feed_pc = "done" =>
        /\ Len(feed) = Cardinality(Live)
        /\ \A k \in DOMAIN feed :
               \E p \in Live : DerivedFrom(feed[k], OwnerOf(p), TxAt(p))
        /\ \A p \in Live :
               Cardinality({k \in DOMAIN feed :
                                DerivedFrom(feed[k], OwnerOf(p), TxAt(p))})
                 = Cardinality({q \in Live :
                                    /\ OwnerOf(q).name = OwnerOf(p).name
                                    /\ OwnerOf(q).rank = OwnerOf(p).rank
                                    /\ OwnerOf(q).portfolio_value = OwnerOf(p).portfolio_value
                                    /\ TxAt(q).order_date = TxAt(p).order_date
                                    /\ TxAt(q).action = TxAt(p).action
                                    /\ TxAt(q).symbol = TxAt(p).symbol
                                    /\ TxAt(q).amount = TxAt(p).amount
                                    /\ TxAt(q).price = TxAt(p).price})

FeedOneItemPerTransactionWitness ==
    /\ feed_pc = "done"
    /\ Len(competitors) = 2
    /\ Len(competitors[1].transactions) = 2
    /\ Len(competitors[2].transactions) = 1
    /\ competitors[1].transactions[1] = competitors[2].transactions[1]
    /\ competitors[1].transactions[2].status = "Canceled"
    /\ Len(feed) = 2
    /\ feed[1].player_name # feed[2].player_name

\* the order dates of all transactions, in input order
RECURSIVE InputDates(_)
InputDates(cs) ==
    IF cs = <<>> THEN <<>>
    ELSE [j \in DOMAIN Head(cs).transactions |-> Head(cs).transactions[j].order_date]
             \o InputDates(Tail(cs))

FeedDates == [k \in DOMAIN feed |-> feed[k].timestamp]

\* C5: the feed is ordered by the normalized order_date, descending: no item
\* is older than the item after it; and order dates 7/9/25 10:45a,
\* 7/8/25 9:00a, 7/9/25 2:00p come out as 7/9 2:00p, 7/9 10:45a, 7/8 9:00a.
FeedNewestFirst ==
    feed_pc = "done" =>
        /\ \A k \in 1..(Len(feed) - 1) :
               ~DtLess(parse_date(feed[k].timestamp), parse_date(feed[k + 1].timestamp))
        /\ (InputDates(competitors) = <<Jul9_1045a, Jul8_0900a, Jul9_0200p>>
              /\ Cardinality(Live) = 3)
             => FeedDates = <<Jul9_0200p, Jul9_1045a, Jul8_0900a>>

FeedNewestFirstWitness ==
    /\ feed_pc = "done"
    /\ InputDates(competitors) = <<Jul9_1045a, Jul8_0900a, Jul9_0200p>>
    /\ FeedDates = <<Jul9_0200p, Jul9_1045a, Jul8_0900a>>

\* the items of competitor c's transactions that are not canceled, in order
LiveItems(c) ==
    LET IsLive(t) == t.status # "Canceled"
        live == SelectSeq(c.transactions, IsLive)
    IN  [j \in DOMAIN live |->
            [timestamp |-> live[j].order_date, player_name |-> c.name,
             player_rank |-> c.rank, action |-> live[j].action,
             symbol |-> live[j].symbol, amount |-> live[j].amount,
             price |-> live[j].price, portfolio_value |-> c.portfolio_value]]

\* the items in input order: by competitor, then by transaction
RECURSIVE InputItems(_)
InputItems(cs) ==
    IF cs = <<>> THEN <<>> ELSE LiveItems(Head(cs)) \o InputItems(Tail(cs))

\* the items of s whose order date normalizes to d, in the order of s
WithKey(s, d) ==
    LET HasKey(x) == parse_date(x.timestamp) = d
    IN  SelectSeq(s, HasKey)

\* C6: items whose order dates normalize to the same value keep the relative
\* order they had in the input (competitor order, then transaction order).
FeedSortStable ==
    feed_pc = "done" =>
        \A k \in DOMAIN feed :
            LET d == parse_date(feed[k].timestamp)
            IN  WithKey(feed, d) = WithKey(InputItems(competitors), d)

FeedSortStableWitness ==
    /\ feed_pc = "done"
    /\ feed # InputItems(competitors)
    /\ \E k \in DOMAIN feed : \E l \in DOMAIN feed :
           /\ k < l
           /\ feed[k] # feed[l]
           /\ feed[k].symbol # feed[l].symbol
           /\ parse_date(feed[k].timestamp) = parse_date(feed[l].timestamp)

---------------------------------------------------------------------------
(* Claims about the parsers and the deduplication, checked under SpecParse. *)

\* the identity key of a record: (symbol, order_date, action, amount)
IdentityKey(t) == <<t.symbol, t.order_date, t.action, t.amount>>

\* where a record of key k first occurs in list
FirstIndex(list, k) ==
    CHOOSE i \in DOMAIN list :
        /\ IdentityKey(list[i]) = k
        /\ \A j \in 1..(i - 1) : IdentityKey(list[j]) # k

KeysOf(list) == {IdentityKey(list[i]) : i \in DOMAIN list}

\* C1: the deduplication step of parse_transactions returns exactly one
\* record for each distinct key (symbol, order_date, action, amount) of the
\* candidate list, in the order in which the keys first occur in it.
DedupOnePerKey ==
    parse_pc = "competition" =>
        /\ \A k \in DOMAIN transactions : \A l \in DOMAIN transactions :
               IdentityKey(transactions[k]) = IdentityKey(transactions[l]) => k = l
        /\ KeysOf(transactions) = KeysOf(candidates)
        /\ \A k \in DOMAIN transactions : \A l \in DOMAIN transactions :
               k < l => FirstIndex(candidates, IdentityKey(transactions[k]))
                          < FirstIndex(candidates, IdentityKey(transactions[l]))

DedupOnePerKeyWitness ==
    /\ parse_pc = "competition"
    /\ Len(transactions) = 2
    /\ Len(candidates) = 4
    /\ IdentityKey(candidates[1]) = IdentityKey(candidates[3])
    /\ IdentityKey(candidates[1]) # IdentityKey(candidates[2])

\* C2: the list a parser returns for one document never holds two records
\* with the same (symbol, order_date, action, amount), on either parsing
\* path: CompetitionScraper.parse_transactions and
\* MarketWatchScraper._parse_transactions.
ParsedListHasNoDuplicates ==
    parse_pc \in {"competition", "portfolio"} =>
        \A k \in DOMAIN transactions : \A l \in DOMAIN transactions :
            IdentityKey(transactions[k]) = IdentityKey(transactions[l]) => k = l

\* C9: every record the deduplication keeps is, field for field, the first
\* candidate record with its key; later records of the key are discarded,
\* whatever their price, transaction_date or status.
DedupFirstSeenWins ==
    parse_pc = "competition" =>
        \A k \in DOMAIN transactions :
            transactions[k]
              = candidates[FirstIndex(candidates, IdentityKey(transactions[k]))]

DedupFirstSeenWinsWitness ==
    /\ parse_pc = "competition"
    /\ Len(transactions) = 1
    /\ transactions[1].price = Price150
    /\ transactions[1].status = "Completed"
    /\ \E i \in DOMAIN candidates :
           /\ IdentityKey(candidates[i]) = IdentityKey(transactions[1])
           /\ candidates[i].status = "Canceled"
           /\ candidates[i].price # transactions[1].price
           /\ candidates[i].transaction_date # transactions[1].transaction_date

\* C10: deduplication is idempotent: deduplicating the list it returned
\* returns that list unchanged.
DedupIdempotent ==
    parse_pc = "competition" => Dedup(transactions) = transactions

DedupIdempotentWitness ==
    /\ parse_pc = "competition"
    /\ Len(candidates) = 4
    /\ Len(transactions) = 1


---------------------------------------------------------------------------
(* Claims about the table parsers and the CSV parser, checked under        *)
(* SpecRows.                                                               *)

\* the data rows of the sheet
DataRows == Tail(sheet.rows)

\* what the parser that ran returns for the sheet's header and these rows
Rerun(rows) ==
    IF rows_pc = "csv" THEN parse_transactions_csv(<<Head(sheet.rows)>> \o rows)
    ELSE ParseTransactionTable([rows |-> <<Head(sheet.rows)>> \o rows])

\* C11: whichever parser ran (a table parser or the CSV parser), every
\* record that a row of the sheet yields when it is the only row is among
\* the records returned for the whole sheet: no other row takes it away.
MalformedRowContained ==
    rows_pc # "input" =>
        \A i \in DOMAIN DataRows :
            \A k \in DOMAIN Rerun(<<DataRows[i]>>) :
                \E j \in DOMAIN parsed : parsed[j] = Rerun(<<DataRows[i]>>)[k]

TableParserRan == rows_pc \in {"competition_table", "portfolio_table"}

HasSixCells(cells) == Len(cells) >= 6

\* C12: after either table parser, no exception has left it and the
\* records returned are those of the table without its rows of fewer than
\* 6 cells: such a row yields nothing and the rows after it are parsed.
ShortRowSkipped ==
    TableParserRan =>
        /\ raised = "none"
        /\ parsed = Rerun(SelectSeq(DataRows, HasSixCells))

\* a row of fewer than 6 cells stood before a row that yielded its record
ShortRowSkippedWitness ==
    /\ TableParserRan
    /\ Len(DataRows) = 2
    /\ Len(DataRows[1]) \in 1..5
    /\ Len(parsed) = 1
    /\ parsed[1].symbol = Strip(DataRows[2][1])

\* C13: after either table parser, no exception has left it and there is
\* exactly one record for each data row of at least 6 cells, whatever the
\* cells hold.
LongRowYieldsOne ==
    TableParserRan =>
        /\ raised = "none"
        /\ Len(parsed) = Len(SelectSeq(DataRows, HasSixCells))

\* the text of the amount cell or field of a data row, NoneValue where the
\* row has none
AmountText(row) ==
    IF rows_pc = "csv" THEN RowGet(Head(sheet.rows), row, FieldAmount, <<"0">>)
    ELSE IF Len(row) >= 6 THEN Strip(row[5]) ELSE NoneValue

\* the integer a text of decimal digits denotes, 0 for any other text
DecimalOrZero(text) ==
    IF text # <<>> /\ \A i \in DOMAIN text : IsDigit(text[i])
    THEN IntAt(text, 1, Len(text))
    ELSE 0

HasAmountText(row) == row # <<>> /\ AmountText(row) # NoneValue

\* C14: whichever parser ran, no exception has left it, every returned
\* record has a natural number as amount, and the rows that have an amount
\* text are returned one record each, in order, the amount being the value
\* of the text without its commas when that is all digits and 0 otherwise.
AmountSafe ==
    rows_pc # "input" =>
        LET rows == SelectSeq(DataRows, HasAmountText)
        IN  /\ raised = "none"
            /\ \A j \in DOMAIN parsed : parsed[j].amount \in Nat
            /\ Len(parsed) >= Len(rows)
            /\ \A k \in DOMAIN rows :
                   parsed[k].amount =
                       DecimalOrZero(Replace(AmountText(rows[k]), <<",">>, <<>>))

\* the text of the action cell or Type field of a data row
ActionText(row) ==
    IF rows_pc = "csv" THEN RowGet(Head(sheet.rows), row, FieldType, <<>>)
    ELSE IF Len(row) >= 6 THEN Strip(row[4]) ELSE <<>>

\* C15: whichever parser ran, every returned record has status Completed
\* or Canceled and comes from a data row whose action or type text
\* contains "Canceled" exactly when the record's status is Canceled.
StatusFollowsCanceledText ==
    rows_pc # "input" =>
        \A j \in DOMAIN parsed :
            /\ parsed[j].status \in {"Completed", "Canceled"}
            /\ \E i \in DOMAIN DataRows :
                   /\ Rerun(<<DataRows[i]>>) = <<parsed[j]>>
                   /\ parsed[j].status = "Canceled"
                          <=> Contains(ActionText(DataRows[i]), CanceledWord)

\* the first whitespace-delimited token of a text: its longest run of
\* non-whitespace characters after the leading whitespace
FirstToken(text) ==
    LET t == LStrip(text)
        ends == {n \in 0..Len(t) :
                    /\ \A k \in 1..n : t[k] \notin Whitespace
                    /\ n = Len(t) \/ t[n + 1] \in Whitespace}
    IN  SubSeq(t, 1, CHOOSE n \in ends : \A m \in ends : m <= n)

YieldsRecord(row) == Rerun(<<row>>) # <<>>

\* C16: after either table parser, the records returned are those of the
\* rows that yield one, in order, and the action of each is the first
\* whitespace-delimited token of the trimmed action cell when that text
\* contains "Canceled" and the whole trimmed text otherwise.
ActionFromCell ==
    TableParserRan =>
        LET rows == SelectSeq(DataRows, YieldsRecord)
        IN  /\ Len(parsed) = Len(rows)
            /\ \A k \in DOMAIN rows :
                   parsed[k].action =
                       IF Contains(Strip(rows[k][4]), CanceledWord)
                       THEN FirstToken(Strip(rows[k][4]))
                       ELSE Strip(rows[k][4])

\* a canceled Buy came out as Buy, and an unrecognized two-word action
\* came out whole
ActionFromCellWitness ==
    /\ TableParserRan
    /\ Len(parsed) = 2
    /\ DataRows[1][4] = BuyCanceled
    /\ parsed[1].action = Buy
    /\ parsed[1].status = "Canceled"
    /\ Len(SplitWords(DataRows[2][4])) = 2
    /\ parsed[2].action = DataRows[2][4]
    /\ parsed[2].status = "Completed"

---------------------------------------------------------------------------
(* Claims about the locator strategies, checked under SpecParse.           *)

\* what each strategy of CompetitionScraper.parse_transactions finds
ModuleStrategy(d) == ParseTables(SelectSeq(d, InModulePrimary))

HeaderStrategy(d) == ParseTables(SelectSeq(d, LooksLikeTransactions))

\* what the two strategies of MarketWatchScraper._parse_transactions that
\* parse tables find
StrictTableStrategy(d) == ParseTables(StrictTable(d))

AnyModuleTableStrategy(d) == ParseTables(SelectSeq(d, InModule))

\* C17: after CompetitionScraper.parse_transactions the candidate list is
\* the module strategy's records followed by the header strategy's, and
\* the key of every record either strategy found is the key of a returned
\* record; after MarketWatchScraper._parse_transactions the key of every
\* record the strict-table strategy or the module strategy found is the
\* key of a returned record.
StrategiesUnioned ==
    /\ parse_pc = "competition" =>
           /\ candidates = ModuleStrategy(doc) \o HeaderStrategy(doc)
           /\ KeysOf(ModuleStrategy(doc)) \cup KeysOf(HeaderStrategy(doc))
                  \subseteq KeysOf(transactions)
    /\ parse_pc = "portfolio" =>
           KeysOf(StrictTableStrategy(doc)) \cup KeysOf(AnyModuleTableStrategy(doc))
               \subseteq KeysOf(transactions)

\* the module strategy found records, the header strategy found one of
\* another key, and both keys were returned
StrategiesUnionedWitness ==
    /\ parse_pc = "competition"
    /\ ModuleStrategy(doc) # <<>>
    /\ \E k \in KeysOf(HeaderStrategy(doc)) :
           /\ k \notin KeysOf(ModuleStrategy(doc))
           /\ k \in KeysOf(transactions)
    /\ KeysOf(ModuleStrategy(doc)) \subseteq KeysOf(transactions)

\* the data row of the specification's end-to-end example
SpecExampleRow == <<AAPL, Jul9_1045a, Jul9_1046a, Buy, <<"1", "0", "0">>, Price150>>

\* some strategy of the parser that ran selects the table
Recognized(table) ==
    IF parse_pc = "competition"
    THEN InModulePrimary(table) \/ LooksLikeTransactions(table)
    ELSE ExactClass(table) \/ LooseClass(table) \/ InModule(table)

\* C18: whichever parser ran on a page whose one table is recognized and
\* holds the example header and the example row alone, exactly one record
\* is returned, and it has symbol AAPL, amount 100 and status Completed.
SpecExampleYieldsOne ==
    /\ parse_pc \in {"competition", "portfolio"}
    /\ Len(doc) = 1
    /\ doc[1].rows = <<GoodHeader, SpecExampleRow>>
    /\ Recognized(doc[1])
    => /\ Len(transactions) = 1
       /\ transactions[1].symbol = AAPL
       /\ transactions[1].amount = 100
       /\ transactions[1].status = "Completed"

---------------------------------------------------------------------------
(* Claims about scraping the participants, checked under SpecScrape.       *)

\* the participants the loop has been through
Visited == SubSeq(public_ids, 1, scrape_i - 1)

\* the performance response of the participant came and has values
HasPerformance(public_id) ==
    site[public_id].performance.ok /\ site[public_id].performance.values # <<>>

\* the participant has performance values and its page cannot be fetched
PageMissing(public_id) == HasPerformance(public_id) /\ ~site[public_id].page.ok

OfFetchedPage(competitor) == site[competitor.public_id].page.ok

LatestOf(public_id) ==
    site[public_id].performance.values[Len(site[public_id].performance.values)]

\* C19: every participant the loop has been through whose page could not
\* be fetched has a Competitor in the list, and every such Competitor has
\* no transactions, the name Unknown and the rank, value and returns of the
\* latest performance snapshot; the feed is the feed of the other
\* competitors alone.
MissingPageIsZeroTransactions ==
    /\ \A k \in DOMAIN Visited :
           PageMissing(Visited[k]) =>
               \E j \in DOMAIN competitors : competitors[j].public_id = Visited[k]
    /\ \A j \in DOMAIN competitors :
           ~OfFetchedPage(competitors[j]) =>
               /\ competitors[j].transactions = <<>>
               /\ competitors[j].name = Unknown
               /\ competitors[j].rank = LatestOf(competitors[j].public_id).r
               /\ competitors[j].portfolio_value = LatestOf(competitors[j].public_id).w
               /\ competitors[j].return_percentage = LatestOf(competitors[j].public_id).p
               /\ competitors[j].return_dollars = LatestOf(competitors[j].public_id).g
    /\ feed_pc = "done" =>
           feed = create_activity_feed(SelectSeq(competitors, OfFetchedPage))

\* the page of the first of two participants could not be fetched: both
\* are competitors, and the one feed item is the second's
MissingPageIsZeroTransactionsWitness ==
    /\ feed_pc = "done"
    /\ Len(public_ids) = 2
    /\ PageMissing(public_ids[1])
    /\ Len(competitors) = 2
    /\ competitors[1].public_id = public_ids[1]
    /\ competitors[1].transactions = <<>>
    /\ competitors[1].rank = 3
    /\ competitors[2].transactions # <<>>
    /\ Len(feed) = 1
    /\ feed[1].player_name = competitors[2].name
    /\ feed[1].player_name # competitors[1].name

\* the participants of a list whose scrape gives a Competitor
Scraped(ids) == SelectSeq(ids, HasPerformance)

IsPerformanceRequest(request) == request.url = "portfolioPerformance"

\* C20: the public ids of the competitors are those of the participants
\* gone through whose scrape gave a Competitor, in list order and one per
\* list position, so never more than the list has; the performance
\* requests sent are one per participant gone through, failed ones
\* included, in list order; and the feed is built once the whole list has
\* been gone through, with no item but those of listed competitors.
FailedScrapeOmitted ==
    /\ [j \in DOMAIN competitors |-> competitors[j].public_id] = Scraped(Visited)
    /\ Len(competitors) <= Len(public_ids)
    /\ LET sent == SelectSeq(fetched, IsPerformanceRequest)
       IN  [k \in DOMAIN sent |-> sent[k].public_id] = Visited
    /\ feed_pc = "done" =>
           /\ scrape_i = Len(public_ids) + 1
           /\ \A n \in DOMAIN feed :
                  \E j \in DOMAIN competitors :
                      \E t \in DOMAIN competitors[j].transactions :
                          feed[n] = Activity(competitors[j], competitors[j].transactions[t])

\* the scrape of the second of three participants failed; the first and
\* the third are the competitors, in that order, and the feed has their
\* items only
FailedScrapeOmittedWitness ==
    /\ feed_pc = "done"
    /\ Len(public_ids) = 3
    /\ ~HasPerformance(public_ids[2])
    /\ public_ids[2] \notin {public_ids[1], public_ids[3]}
    /\ Len(competitors) = 2
    /\ competitors[1].public_id = public_ids[1]
    /\ competitors[2].public_id = public_ids[3]
    /\ Len(fetched) = 5
    /\ Len(feed) = 2

---------------------------------------------------------------------------
(* Claims about documents that cannot be read, checked under SpecRows.     *)

\* the export cannot be read as CSV at all: the reader raises on a row
Unreadable(csv_content) ==
    \E i \in DOMAIN csv_content : \E k \in DOMAIN csv_content[i] :
        csv_content[i][k] = Oversize

\* C21: when the CSV parser has run on an export that cannot be read as
\* CSV, an error has left the parser to its caller: the export has not
\* come back as a returned list with "none" raised.
UnreadableDocumentSurfaced ==
    rows_pc = "csv" /\ Unreadable(sheet.rows) => raised # "none"

---------------------------------------------------------------------------
(* Further claims about the feed assembler, checked under SpecFeed.        *)

\* the keys of the dictionary create_activity_feed builds for an item
ActivityKeys ==
    {"timestamp", "player_name", "player_rank", "action", "symbol", "amount",
     "price", "portfolio_value"}

\* C22: a step of create_activity_feed leaves the competitor list as it
\* was (every competitor, every transaction list in contents and order,
\* every field), and the feed it returns is made of activity dictionaries
\* of its own, none of them a transaction or a competitor of the input.
FeedLeavesInputUnchanged ==
    [][/\ competitors' = competitors
       /\ \A n \in DOMAIN feed' : DOMAIN feed'[n] = ActivityKeys]_vars

\* the feed was built in another order than the input and without a
\* canceled transaction that the competitor's list still holds
FeedLeavesInputUnchangedWitness ==
    /\ feed_pc = "done"
    /\ Len(competitors) = 1
    /\ Len(competitors[1].transactions) = 3
    /\ competitors[1].transactions[2].status = "Canceled"
    /\ Len(feed) = 2
    /\ feed[1].timestamp = competitors[1].transactions[3].order_date
    /\ feed[2].timestamp = competitors[1].transactions[1].order_date
    /\ feed[1].timestamp # feed[2].timestamp

---------------------------------------------------------------------------
(* Further claims about the locator strategies, checked under SpecParse.   *)

ClassMatched(table) == HasClass(table, TablePrimary) \/ HasClass(table, Ranking)

\* some cell of the table's first row contains the word
HeaderNames(table, word) ==
    /\ table.rows # <<>>
    /\ \E i \in DOMAIN table.rows[1] : Contains(Strip(table.rows[1][i]), word)

SniffAccepts(table) ==
    /\ ClassMatched(table)
    /\ HeaderNames(table, SymbolWord)
    /\ HeaderNames(table, OrderWord)

\* C23: after CompetitionScraper.parse_transactions, what the candidate
\* list holds beyond the module strategy's records is the records of the
\* class-matched tables whose header row names both Symbol and Order, in
\* page order: a class-matched table whose header lacks either word adds
\* nothing there.
HeaderSniffGuards ==
    parse_pc = "competition" =>
        candidates = ModuleStrategy(doc) \o ParseTables(SelectSeq(doc, SniffAccepts))

\* a ranking table with data rows whose header names Symbol and no Order
\* stood outside the module, and nothing came of it
HeaderSniffGuardsWitness ==
    /\ parse_pc = "competition"
    /\ Len(doc) = 1
    /\ ClassMatched(doc[1])
    /\ ~doc[1].in_module
    /\ HeaderNames(doc[1], SymbolWord)
    /\ ~HeaderNames(doc[1], OrderWord)
    /\ Len(doc[1].rows) = 3
    /\ candidates = <<>>
    /\ transactions = <<>>

ExactAt(d) == {i \in DOMAIN d : d[i].classes = <<TableWord, TablePrimary, Ranking>>}

LooseAt(d) == {i \in DOMAIN d : \E k \in DOMAIN d[i].classes : LooseClassMatch(d[i].classes[k])}

Lowest(S) == CHOOSE i \in S : \A j \in S : i <= j

\* the one table the strict-table strategy may parse, as a list of at most
\* one: the earliest table of the exact class; with no such table the
\* earliest table of a loose class
TheOneTable(d) ==
    IF ExactAt(d) # {} THEN <<d[Lowest(ExactAt(d))]>>
    ELSE IF LooseAt(d) # {} THEN <<d[Lowest(LooseAt(d))]>>
    ELSE <<>>

\* C24: after MarketWatchScraper._parse_transactions, what the list holds
\* before the records of the module's tables is the records of at most one
\* table: the first table of the exact class, and only when the page has
\* no table of the exact class the first table of a loose class.
StrictTableParsesOne ==
    parse_pc = "portfolio" =>
        /\ Len(TheOneTable(doc)) <= 1
        /\ candidates = ParseTables(TheOneTable(doc)) \o ParseTables(SelectSeq(doc, InModule))

\* two tables of a loose class stood outside the module, each with an
\* order, and only the first one's order was read
StrictTableParsesOneWitness ==
    /\ parse_pc = "portfolio"
    /\ Len(doc) = 2
    /\ ExactAt(doc) = {}
    /\ LooseAt(doc) = {1, 2}
    /\ Len(ParseTransactionTable(doc[1])) = 1
    /\ Len(ParseTransactionTable(doc[2])) = 1
    /\ ParseTransactionTable(doc[1]) # ParseTransactionTable(doc[2])
    /\ candidates = ParseTransactionTable(doc[1])

---------------------------------------------------------------------------
(* A further claim about the scrape, checked under SpecScrape.             *)

Represents(item, transaction) ==
    /\ item.symbol = transaction.symbol
    /\ item.timestamp = transaction.order_date
    /\ item.action = transaction.action
    /\ item.amount = transaction.amount

\* the records the row parser produced from the participant's page
RowParserRecords(public_id) == CompetitionCandidates(site[public_id].page.tables)

---------------------------------------------------------------------------
(* A claim about update_frontend_data, checked under SpecUpdate.           *)

\* the update does not complete a successful scrape: the leaderboard
\* request fails, or participants are listed and none can be scraped, or an
\* exception ends the call
UpdateFails ==
    \/ ~leaderboard.ok
    \/ /\ leaderboard.entries # <<>>
       /\ \A i \in DOMAIN leaderboard.entries : ~HasPerformance(leaderboard.entries[i][1])
    \/ update_pc' = "raised"

\* C26: an update that fails leaves a data file that was there, and its
\* copy under frontend/public, with the contents they had.
FailedUpdateKeepsData ==
    [][update_pc = "input" /\ update_pc' # "input" /\ UpdateFails =>
           /\ data_file.exists => data_file' = data_file
           /\ frontend_file.exists => frontend_file' = frontend_file]_vars

---------------------------------------------------------------------------
(* Claims about auto_scraper.py, checked under SpecAuto and SpecAutoFair.  *)

StepOrder == <<"leaderboard", "competition", "copy">>

RunOver == auto_pc \in {"returned", "slept"}

AllThreeSucceeded ==
    /\ Len(auto_steps) = 3
    /\ \A i \in 1..3 : auto_steps[i].outcome = "0"

\* C27: the steps a run has run are the first ones of leaderboard,
\* competition, copy, in that order; every step before the last one run
\* exited 0; a step that did not exit 0 is the last of its run, and the run
\* has returned; a finished run returned True exactly when all three steps
\* exited 0.
RunStepsGated ==
    /\ Len(auto_steps) <= 3
    /\ \A i \in DOMAIN auto_steps :
           /\ auto_steps[i].step = StepOrder[i]
           /\ i < Len(auto_steps) => auto_steps[i].outcome = "0"
           /\ auto_steps[i].outcome # "0" => auto_pc \in {"returned", "slept", "stopped"}
    /\ RunOver => auto_result = (IF AllThreeSucceeded THEN "True" ELSE "False")

\* the competition step timed out after the leaderboard step exited 0: the
\* copy step was not run and the run returned False
RunStepsGatedWitness ==
    /\ auto_pc = "returned"
    /\ Len(auto_steps) = 2
    /\ auto_steps[1].outcome = "0"
    /\ auto_steps[2].outcome = "TimeoutExpired"
    /\ auto_result = "False"

\* C28: main starts a run only at its start or after the sleep that
\* follows a run; whenever a run has returned, failed or not, a new run
\* starts later unless the process is interrupted; so runs start again and
\* again until an interrupt.
LoopKeepsRunning ==
    /\ [][auto_pc' = "leaderboard" => auto_pc \in {"main", "slept"}]_vars
    /\ (auto_pc = "returned" /\ auto_result = "False") ~> (auto_pc = "leaderboard" \/ auto_pc = "stopped")
    /\ (auto_pc = "returned" /\ auto_result = "True") ~> (auto_pc = "leaderboard" \/ auto_pc = "stopped")
    /\ []<>(auto_pc = "leaderboard" \/ auto_pc = "stopped")

\* the second run has started after the first one failed
LoopKeepsRunningWitness ==
    /\ auto_pc = "leaderboard"
    /\ auto_runs = 2
    /\ auto_result = "False"
    /\ auto_steps = <<>>

---------------------------------------------------------------------------
(* A claim about get_portfolio_performance, checked under SpecPortfolio.   *)

\* what the page yields: nothing when its request fails
HtmlRecords ==
    IF account.page.ok THEN portfolio_parse_transactions(account.page.tables) ELSE <<>>

\* what the export yields: nothing when its request fails
CsvRecords ==
    IF account.export.ok THEN parse_transactions_csv(account.export.rows) ELSE <<>>

PerformanceRead == account.performance.ok /\ account.performance.body # "invalid"

ExportFetched == \E i \in DOMAIN requested : requested[i] = "download"

\* C29: once get_portfolio_performance is over, the export was requested
\* exactly when the performance response was read and the page yielded no
\* record; a returned PortfolioData carries a list: the page's records
\* when there are any, else the export's records when there are any, else
\* the empty list.
CsvIsFallbackOnly ==
    portfolio_pc \notin {"input", "idle"} =>
        /\ ExportFetched <=> (PerformanceRead /\ HtmlRecords = <<>>)
        /\ portfolio_pc = "PortfolioData" =>
               /\ ~portfolio_data.transactions.is_none
               /\ portfolio_data.transactions.value =
                      (IF HtmlRecords # <<>> THEN HtmlRecords ELSE CsvRecords)

\* the page request failed, the export had two orders, and the returned
\* PortfolioData carries these two
CsvIsFallbackOnlyWitness ==
    /\ portfolio_pc = "PortfolioData"
    /\ ~account.page.ok
    /\ Len(CsvRecords) = 2
    /\ ExportFetched
    /\ portfolio_data.transactions = Some(CsvRecords)
    /\ portfolio_data.current_rank = 3

\* the item's timestamp is empty or blank, or parse_date's try block raises
\* on it
Undated(item) ==
    \/ Strip(item.timestamp) = <<>>
    \/ ~ParseDateTry(item.timestamp).ok

\* C30: in the feed no item with a parseable timestamp stands after an
\* item whose timestamp is empty or unparseable, and the items whose
\* timestamp is empty or unparseable stand in the order in which the
\* competitors' transactions list them.
UndatedItemsLast ==
    feed_pc = "done" =>
        /\ \A i \in DOMAIN feed : \A j \in DOMAIN feed :
               i < j /\ Undated(feed[i]) => Undated(feed[j])
        /\ SelectSeq(feed, Undated) = SelectSeq(Activities(competitors), Undated)

\* an order without a date, a dated order and an order with an unreadable
\* date, in this order in the input: the dated one leads the feed and the
\* two others follow as they were listed
UndatedItemsLastWitness ==
    /\ feed_pc = "done"
    /\ Len(feed) = 3
    /\ Len(Activities(competitors)) = 3
    /\ feed[1] = Activities(competitors)[2]
    /\ feed[2] = Activities(competitors)[1]
    /\ feed[3] = Activities(competitors)[3]
    /\ feed[2].timestamp = <<>>
    /\ feed[3].timestamp = <<"P", "e", "n", "d", "i", "n", "g">>
    /\ ~Undated(feed[1])
===========================================================================
